---- MODULE Spec2Model ----
(***************************************************************************)
(* A model of the xiaohongshu-mcp session and interaction engine:          *)
(*   - the service flows of XiaohongshuService (one browser session and    *)
(*     one page per call, released by Go defers),                          *)
(*   - the like / favorite convergence protocol (LikeAction,               *)
(*     FavoriteAction),                                                    *)
(*   - the QR login flow with its detached wait and the interactive login, *)
(*   - the polling waits (waitForInitialState and the publish waits),      *)
(*   - the accounts package: identifier normalisation and the per-account  *)
(*     directories and metadata under the data root.                       *)
(***************************************************************************)
EXTENDS Integers, Sequences, FiniteSets, TLC

\* ------------------------------------------------------------------ bounds

\* Number of service calls made one after the other in one behaviour.
MaxCalls == 2

\* Poll ticks of the detached login wait before its deadline (the code's
\* deadline is 4 minutes).
LoginWaitTicks == 2

\* Poll intervals in the window of a polling wait (the code's windows are 30 s,
\* 60 s and 90 s of 500 ms polls, and 10 min of 1 s polls).
WaitWindowTicks == 3

\* Longest raw account identifier handed to ResolveAccountID.
MaxIdLen == 3

\* Most characters of either width in a title the title check is tried on.
MaxTitleRunes == 41

\* Account-store operations made one after the other in one behaviour.
MaxStoreOps == 2

\* Calls on the metadata of one account started in one behaviour, two of
\* them running at a time.
MaxMetaCalls == 2

\* Most image files handed to one publish call.
MaxFiles == 2

\* ------------------------------------------------------------------ state

VARIABLES
    flow,          \* the service operation of the current call
    pc,            \* position of the calling goroutine
    callNo,        \* number of calls started so far
    cancelled,     \* the caller's context has been cancelled
    browser,       \* "none" | "open" | "closed": the call's headless browser
    page,          \* "none" | "open" | "closed": the call's page
    deferStack,    \* deferred calls of the calling goroutine, innermost first
    exitHow,       \* how the function body was left: "ok" | "err" | "panic" | "fatal"
    result,        \* what the caller got: "none" | "ok" | "err" | "panic" | "fatal"
    realLiked,     \* the feed's real liked state
    realCollected, \* the feed's real collected state
    embLiked,      \* liked as shown by window.__INITIAL_STATE__
    embCollected,  \* collected as shown by window.__INITIAL_STATE__
    reads,         \* results of getInteractState in this call, in order
    clickLog,      \* performClick calls of this call, in order
    cookieFile,    \* the account's cookies.json: 0 absent, n the bundle saved by call n
    authSeen,      \* this call's login flow saw authentication succeed
    bgpc,          \* position of the goroutine GetLoginQrcode starts
    bgTime,        \* poll ticks the detached wait has used
    bgDefers,      \* deferred calls of that goroutine, innermost first
    saveOut,       \* how this call's saveCookies ended, "none" before it ran
    loggedIn,      \* FetchQrcodeImage found the account logged in (IsLoggedIn)
    wCaller,       \* the function that runs the wait under study
    wpc,           \* "idle" | "waiting" | "done"
    wNow,          \* poll intervals elapsed since the wait began
    wPolls,        \* what each poll of the wait got, in order
    wResult,       \* "none" | "ok" | "TimedOut" | "Canceled"
    wCancelled,    \* the caller's context was cancelled during the wait
    wPollsAfter,   \* polls the wait made after that cancellation
    rawID,         \* the string handed to ResolveAccountID
    resolved,      \* what ResolveAccountID returned for it, NoResult before
    store,         \* the data root: directories and meta.json files
    clock,         \* the last value time.Now() returned
    lastOp,        \* the last account-store operation: arguments, outcome
    storeOps,      \* account-store operations made so far
    accountID,     \* the account identifier the current service call got
    title,         \* the title of the current publish request
    titleCheck,    \* what the title validation said of it, "none" before
    sfArgs,        \* the five strings handed to NewSearchFilters
    sfOut,         \* what NewSearchFilters returned for them, NoFilters before
    sessArgs,      \* what a session is created from: identifier, disk, cookie file
    sessOut,       \* what newBrowser returned for them, NoSession before
    raceCalls,     \* the two concurrent GetLoginQrcode calls for one account
    raceFile,      \* that account's cookies.json and who wrote it, in order
    pub,           \* one run of a publish pipeline on its page
    iso,           \* the files under the data directory, by path
    srch,          \* one search call and the page it runs on
    hcall,         \* one request to an HTTP or MCP handler and its answer
    mrace          \* one account's meta.json under calls that run together

vars == <<flow, pc, callNo, cancelled, browser, page, deferStack, exitHow,
          result, realLiked, realCollected, embLiked, embCollected, reads,
          clickLog, cookieFile, authSeen, bgpc, bgTime, bgDefers, saveOut,
          loggedIn, wCaller, wpc, wNow, wPolls, wResult, wCancelled, wPollsAfter,
          rawID, resolved, store, clock, lastOp, storeOps, accountID, title,
          titleCheck, sfArgs, sfOut, sessArgs, sessOut, raceCalls, raceFile, pub, iso, srch, hcall, mrace>>

svcVars == <<flow, pc, callNo, cancelled, browser, page, deferStack, exitHow,
             result, realLiked, realCollected, embLiked, embCollected, reads,
             clickLog, cookieFile, authSeen, bgpc, bgTime, bgDefers, saveOut,
             loggedIn>>

waitVars == <<wCaller, wpc, wNow, wPolls, wResult, wCancelled, wPollsAfter>>

loginVars == <<cookieFile, authSeen, bgpc, bgTime, bgDefers, saveOut, loggedIn>>

\* What only the accounts package's own operations change.
pureVars == <<rawID, resolved, lastOp, storeOps, sfArgs, sfOut, sessArgs, sessOut,
             raceCalls, raceFile, pub, iso, srch, hcall, mrace>>

\* What a service call shares with the accounts package.
sharedVars == <<store, clock, accountID, title, titleCheck>>

\* ------------------------------------------- account identifiers (strings)

\* A string is the sequence of its characters. The characters used are a
\* sample of each class the code tells apart.
Lower == {"a", "d", "e", "f", "l", "t", "u"}

Upper == {"Z"}

Digits == {"7"}

\* The character class of accountIDPattern, ^[a-zA-Z0-9_-]+$.
IdChars == Lower \cup Upper \cup Digits \cup {"_", "-"}

\* Characters strings.TrimSpace removes.
SpaceChars == {" ", "\n"}

\* Characters of the raw identifiers tried.
InputChars == {"a", "Z", "7", "_", "-", " ", "\n", "/"}

defaultAccountID == <<"d", "e", "f", "a", "u", "l", "t">>

RawIDs == UNION {[1..k -> InputChars] : k \in 0..MaxIdLen} \cup {defaultAccountID}

RECURSIVE TrimLeft(_)
TrimLeft(s) ==
    IF s # <<>> /\ Head(s) \in SpaceChars THEN TrimLeft(Tail(s)) ELSE s

RECURSIVE TrimRight(_)
TrimRight(s) ==
    IF s # <<>> /\ s[Len(s)] \in SpaceChars
    THEN TrimRight(SubSeq(s, 1, Len(s) - 1))
    ELSE s

\* strings.TrimSpace
TrimSpace(s) == TrimRight(TrimLeft(s))

\* A pattern that any non-empty string matches.
accountIDPatternAnything(s) == s # <<>>

\* accountIDPattern.MatchString
accountIDPattern(s) == s # <<>> /\ \A i \in 1..Len(s) : s[i] \in IdChars

\* sanitizeAccountID with the pattern tested on the string as given.
sanitizeAccountIDMatchesRaw(raw) ==
    LET trimmed == TrimSpace(raw)
    IN  IF trimmed = <<>>
        THEN [ok |-> TRUE, id |-> defaultAccountID]
        ELSE IF ~accountIDPattern(raw)
             THEN [ok |-> FALSE, id |-> <<>>]
             ELSE [ok |-> TRUE, id |-> trimmed]

sanitizeAccountID(raw) ==
    LET trimmed == TrimSpace(raw)
    IN  IF trimmed = <<>>
        THEN [ok |-> TRUE, id |-> defaultAccountID]
        ELSE IF ~accountIDPattern(trimmed)
             THEN [ok |-> FALSE, id |-> <<>>]
             ELSE [ok |-> TRUE, id |-> trimmed]

ResolveAccountID(raw) == sanitizeAccountID(raw)

NoResult == [ok |-> FALSE, id |-> <<"?">>]


\* ------------------------------------------------- the data root on disk

\* The files the accounts package keeps: the data directory, the accounts
\* root in it, one directory per account, its images directory and its
\* meta.json (a function from the accounts that have one to its content).
EmptyStore ==
    [data |-> FALSE, root |-> FALSE, dirs |-> {}, images |-> {}, meta |-> <<>>]

\* The zero time.Time.
ZeroTime == 0

\* v handed to F as a value, worked out once.
Bind(v, F(_)) == CHOOSE y \in {F(x) : x \in {v}} : TRUE

\* A run of one operation: the store and clock it works on, the number of
\* filesystem calls that still succeed (negative: all do), whether it has
\* failed and how, and the value of the last call that returned one.
Begin(failAt) ==
    [store |-> store, clock |-> clock, left |-> failAt, ok |-> TRUE,
     err |-> "none", ret |-> <<>>]

Fail(s0, e) ==
    Bind(s0, LAMBDA s : IF s.ok THEN [s EXCEPT !.ok = FALSE, !.err = e] ELSE s)

\* One filesystem call (MkdirAll, ReadFile, WriteFile, ReadDir).
IO(s0) ==
    Bind(s0, LAMBDA s :
        IF ~s.ok THEN s
        ELSE IF s.left = 0 THEN Fail(s, "StorageUnavailable")
        ELSE IF s.left > 0 THEN [s EXCEPT !.left = @ - 1]
        ELSE s)

\* Where an operation that makes n filesystem calls is made to fail: at one
\* of them, or (-1) at none.
FailPoints(n) == -1..(n - 1)

\* time.Now(): a later instant at every reading.
Now(s) == [s EXCEPT !.clock = @ + 1]

baseDataDir(s) ==
    Bind(IO(s), LAMBDA t : IF t.ok THEN [t EXCEPT !.store.data = TRUE] ELSE t)

accountsRootDir(s) ==
    Bind(IO(baseDataDir(s)), LAMBDA t :
        IF t.ok THEN [t EXCEPT !.store.root = TRUE] ELSE t)

\* accountDir with the directories made before the identifier is looked at.
accountDirSanitizesLate(s0, raw) ==
    Bind(s0, LAMBDA s :
        IF ~s.ok THEN s
        ELSE Bind(IO(accountsRootDir(s)), LAMBDA t :
            Bind(sanitizeAccountID(raw), LAMBDA r :
                IF ~r.ok THEN Fail(t, "InvalidAccountID")
                ELSE IF t.ok THEN [t EXCEPT !.store.dirs = @ \cup {r.id}]
                ELSE t)))

accountDir(s0, raw) ==
    Bind(s0, LAMBDA s :
        IF ~s.ok THEN s
        ELSE Bind(sanitizeAccountID(raw), LAMBDA r :
            IF ~r.ok THEN Fail(s, "InvalidAccountID")
            ELSE Bind(IO(accountsRootDir(s)), LAMBDA t :
                IF t.ok THEN [t EXCEPT !.store.dirs = @ \cup {r.id}] ELSE t)))

metaPath(s, raw) == accountDir(s, raw)

CookiesPath(s, raw) == accountDir(s, raw)

ImagesDir(s, raw) ==
    Bind(IO(accountDir(s, raw)), LAMBDA t :
        IF t.ok
        THEN [t EXCEPT !.store.images = @ \cup {sanitizeAccountID(raw).id}]
        ELSE t)

\* saveAccountMeta: the remark is trimmed, the file is overwritten.
saveAccountMeta(s, id, m) ==
    Bind(IO(s), LAMBDA t :
        IF t.ok
        THEN [t EXCEPT !.store.meta = (id :> [m EXCEPT !.remark = TrimSpace(@)]) @@ @]
        ELSE t)

defaultAccountMeta(now) ==
    [remark |-> <<>>, createdAt |-> now, updatedAt |-> now]

\* normalizeAccountMeta, given the instant time.Now() would return.
normalizeAccountMeta(m, now) ==
    LET c == IF m.createdAt = ZeroTime THEN now ELSE m.createdAt
        u == IF m.updatedAt = ZeroTime THEN c ELSE m.updatedAt
    IN  [m EXCEPT !.createdAt = c, !.updatedAt = u]

\* The end of ensureMeta: meta m is saved from state n and returned.
saveAndReturn(n, id, m) ==
    Bind(saveAccountMeta(n, id, m), LAMBDA w :
        IF w.ok THEN [w EXCEPT !.ret = m] ELSE w)

\* ensureMeta with a present file's updatedAt set to the time of the call.
ensureMetaTouches(s, raw) ==
    Bind(IO(metaPath(s, raw)), LAMBDA r :
        IF ~r.ok THEN r
        ELSE Bind(sanitizeAccountID(raw).id, LAMBDA id :
            IF id \notin DOMAIN r.store.meta
            THEN saveAndReturn(Now(r), id, defaultAccountMeta(r.clock + 1))
            ELSE saveAndReturn(Now(r), id,
                     [r.store.meta[id] EXCEPT !.updatedAt = r.clock + 1])))

\* ensureMeta: load meta.json, or write a fresh one when there is none.
ensureMeta(s, raw) ==
    Bind(IO(metaPath(s, raw)), LAMBDA r :
        IF ~r.ok THEN r
        ELSE Bind(sanitizeAccountID(raw).id, LAMBDA id :
            IF id \notin DOMAIN r.store.meta
            THEN saveAndReturn(Now(r), id, defaultAccountMeta(Now(r).clock))
            ELSE IF r.store.meta[id].createdAt = ZeroTime
            THEN saveAndReturn(Now(r), id,
                     normalizeAccountMeta(r.store.meta[id], Now(r).clock))
            ELSE saveAndReturn(r, id,
                     normalizeAccountMeta(r.store.meta[id], r.clock))))

EnsureAccount(s, raw) ==
    ensureMeta(ImagesDir(CookiesPath(s, raw), raw), raw)

\* SetAccountRemark with the updatedAt it loaded left as it was.
SetAccountRemarkKeepsUpdatedAt(s0, raw, remark) ==
    Bind(ResolveAccountID(raw), LAMBDA r :
        IF ~r.ok THEN Fail(s0, "InvalidAccountID")
        ELSE Bind(ensureMeta(metaPath(EnsureAccount(s0, r.id), r.id), r.id),
                  LAMBDA g :
            IF ~g.ok THEN g
            ELSE Bind([remark    |-> TrimSpace(remark),
                       createdAt |-> IF g.ret.createdAt = ZeroTime
                                     THEN Now(g).clock ELSE g.ret.createdAt,
                       updatedAt |-> g.ret.updatedAt],
                      LAMBDA m :
                Bind(saveAccountMeta(Now(g), r.id, m), LAMBDA w :
                    IF w.ok THEN [w EXCEPT !.ret = [id |-> r.id] @@ m] ELSE w))))

\* SetAccountRemark; its value is the AccountInfo it returns.
SetAccountRemark(s0, raw, remark) ==
    Bind(ResolveAccountID(raw), LAMBDA r :
        IF ~r.ok THEN Fail(s0, "InvalidAccountID")
        ELSE Bind(ensureMeta(metaPath(EnsureAccount(s0, r.id), r.id), r.id),
                  LAMBDA g :
            IF ~g.ok THEN g
            ELSE Bind([remark    |-> TrimSpace(remark),
                       createdAt |-> IF g.ret.createdAt = ZeroTime
                                     THEN Now(g).clock ELSE g.ret.createdAt,
                       updatedAt |-> Now(g).clock],
                      LAMBDA m :
                Bind(saveAccountMeta(Now(g), r.id, m), LAMBDA w :
                    IF w.ok THEN [w EXCEPT !.ret = [id |-> r.id] @@ m] ELSE w))))

\* The byte value of a character: Go compares strings byte by byte.
Code(c) ==
    CASE c = "\n" -> 10 [] c = " " -> 32 [] c = "-" -> 45 [] c = "/" -> 47
      [] c = "7" -> 55 [] c = "Z" -> 90 [] c = "_" -> 95 [] c = "a" -> 97
      [] c = "d" -> 100 [] c = "e" -> 101 [] c = "f" -> 102 [] c = "l" -> 108
      [] c = "t" -> 116 [] c = "u" -> 117

\* a < b on strings.
RECURSIVE Less(_, _)
Less(a, b) ==
    IF a = <<>> THEN b # <<>>
    ELSE IF b = <<>> THEN FALSE
    ELSE IF Head(a) = Head(b) THEN Less(Tail(a), Tail(b))
    ELSE Code(Head(a)) < Code(Head(b))

\* os.ReadDir: the entries sorted by file name.
RECURSIVE ReadDir(_)
ReadDir(names) ==
    IF names = {} THEN <<>>
    ELSE LET least == CHOOSE x \in names : \A y \in names \ {x} : Less(x, y)
         IN  <<least>> \o ReadDir(names \ {least})

\* Put one AccountInfo in its place in a list sorted by ID.
RECURSIVE InsertByID(_, _)
InsertByID(info, sorted) ==
    IF sorted = <<>> THEN <<info>>
    ELSE IF Less(info.id, Head(sorted).id) THEN <<info>> \o sorted
    ELSE <<Head(sorted)>> \o InsertByID(info, Tail(sorted))

RECURSIVE SortByID(_)
SortByID(infos) ==
    IF infos = <<>> THEN <<>> ELSE InsertByID(Head(infos), SortByID(Tail(infos)))

\* ListAccounts with its list left in the order it was built.
sortInfosSkipped(infos) == infos

\* sort.Slice(infos, ... infos[i].ID < infos[j].ID)
sortInfos(infos) == SortByID(infos)

\* The loop of ListAccounts over the directory entries; the list so far is
\* carried in ret.
RECURSIVE ListEntries(_, _)
ListEntries(s0, entries) ==
    Bind(s0, LAMBDA s :
        IF entries = <<>> \/ ~s.ok THEN s
        ELSE Bind(ensureMeta([s EXCEPT !.ret = <<>>], Head(entries)), LAMBDA g :
            IF ~g.ok THEN g
            ELSE ListEntries(
                    [g EXCEPT !.ret = Append(s.ret, [id |-> Head(entries)] @@ g.ret)],
                    Tail(entries))))

ListAccounts(s) ==
    Bind(IO(accountsRootDir(s)), LAMBDA rd :
        IF ~rd.ok THEN rd
        ELSE Bind(ListEntries([rd EXCEPT !.ret = <<>>], ReadDir(rd.store.dirs)),
                  LAMBDA loop :
            IF ~loop.ok THEN loop
            ELSE IF defaultAccountID \notin loop.store.dirs
            THEN Bind(ensureMeta(EnsureAccount([loop EXCEPT !.ret = <<>>],
                                               defaultAccountID),
                                 defaultAccountID),
                      LAMBDA g :
                    IF ~g.ok THEN g
                    ELSE [g EXCEPT !.ret = sortInfos(Append(loop.ret,
                                        [id |-> defaultAccountID] @@ g.ret))])
            ELSE [loop EXCEPT !.ret = sortInfos(loop.ret)]))

\* XiaohongshuService.newBrowser: the cookies path first, the browser after.
newBrowser(s, raw) ==
    Bind(CookiesPath(s, raw), LAMBDA c :
        IF c.ok THEN [c EXCEPT !.ret = "launched"] ELSE c)

\* XiaohongshuService.processImages: the images directory first, then the
\* downloader, which fetches the remote images into it or fails.
processImages(s, raw, downloads) ==
    Bind(ImagesDir(s, raw), LAMBDA d :
        IF ~d.ok THEN d
        ELSE IF downloads THEN [d EXCEPT !.ret = "downloaded"]
        ELSE Fail(d, "DownloadFailed"))

\* The raw identifiers and remarks the store's callers pass.
StoreRawIDs ==
    {<<>>, <<" ", "e", "\n">>, <<"7">>, <<"Z", "/">>, <<"e", " ", "e">>}

Remarks == {<<"a">>, <<" ", "Z", " ">>}

NoOp ==
    [op |-> "none", raw |-> <<>>, remark |-> <<>>, ok |-> FALSE, err |-> "none",
     ret |-> <<>>, again |-> FALSE]

\* What is kept of an operation that ran on (raw, remark) and ended as s;
\* again: it follows a successful call of the same operation for the same
\* account.
Done(op, raw, remark, s) ==
    /\ store' = s.store
    /\ clock' = s.clock
    /\ storeOps' = storeOps + 1
    /\ lastOp' = [op |-> op, raw |-> raw, remark |-> remark, ok |-> s.ok,
                  err |-> s.err, ret |-> IF s.ok THEN s.ret ELSE <<>>,
                  again |-> /\ lastOp.op = op
                            /\ lastOp.ok
                            /\ sanitizeAccountID(lastOp.raw) = sanitizeAccountID(raw)]

StoreFrame ==
    /\ UNCHANGED svcVars
    /\ UNCHANGED waitVars
    /\ UNCHANGED <<rawID, resolved, accountID, title, titleCheck, sfArgs, sfOut>>
    /\ UNCHANGED <<sessArgs, sessOut, raceCalls, raceFile, pub, iso, srch, hcall, mrace>>

CallCookiesPath ==
    /\ storeOps < MaxStoreOps
    /\ \E raw \in StoreRawIDs, f \in FailPoints(3) :
          Done("cookiesPath", raw, <<>>, CookiesPath(Begin(f), raw))
    /\ StoreFrame

CallImagesDir ==
    /\ storeOps < MaxStoreOps
    /\ \E raw \in StoreRawIDs, f \in FailPoints(4) :
          Done("imagesDir", raw, <<>>, ImagesDir(Begin(f), raw))
    /\ StoreFrame

CallEnsureAccount ==
    /\ storeOps < MaxStoreOps
    /\ \E raw \in StoreRawIDs, f \in FailPoints(12) :
          Done("ensureAccount", raw, <<>>, EnsureAccount(Begin(f), raw))
    /\ StoreFrame

CallSetAccountRemark ==
    /\ storeOps < MaxStoreOps
    /\ \E raw \in StoreRawIDs, remark \in Remarks, f \in FailPoints(21) :
          Done("setRemark", raw, remark, SetAccountRemark(Begin(f), raw, remark))
    /\ StoreFrame

CallNewBrowser ==
    /\ storeOps < MaxStoreOps
    /\ \E raw \in StoreRawIDs, f \in FailPoints(3) :
          Done("newBrowser", raw, <<>>, newBrowser(Begin(f), raw))
    /\ StoreFrame

CallProcessImages ==
    /\ storeOps < MaxStoreOps
    /\ \E raw \in StoreRawIDs, f \in FailPoints(4), downloads \in BOOLEAN :
          Done("processImages", raw, <<>>, processImages(Begin(f), raw, downloads))
    /\ StoreFrame

CallListAccounts ==
    /\ storeOps < MaxStoreOps
    /\ \E f \in FailPoints(20 + 5 * Cardinality(store.dirs)) :
          Done("listAccounts", <<>>, <<>>, ListAccounts(Begin(f)))
    /\ StoreFrame

NextAccounts ==
    \/ CallCookiesPath
    \/ CallImagesDir
    \/ CallEnsureAccount
    \/ CallSetAccountRemark
    \/ CallListAccounts
    \/ CallNewBrowser
    \/ CallProcessImages

\* ResolveAccountID applied to one raw identifier.
CallResolveAccountID ==
    /\ resolved = NoResult
    /\ resolved' = ResolveAccountID(rawID)
    /\ UNCHANGED <<rawID, store, clock, lastOp, storeOps, accountID, title, titleCheck>>
    /\ UNCHANGED <<sfArgs, sfOut, sessArgs, sessOut, raceCalls, raceFile, pub, iso, srch, hcall, mrace>>
    /\ UNCHANGED svcVars
    /\ UNCHANGED waitVars

\* ------------------------------------------------------------- titles

\* A title is known by how many of its characters are narrow (Latin letters,
\* digits: width 1) and how many are wide (East Asian wide and fullwidth
\* characters: width 2).
NoTitle == [narrow |-> 0, wide |-> 0]

\* The title limit of PublishContent, in width units.
TitleLimit == 40

\* The length of the string in characters.
StringWidthCountsRunes(t) == t.narrow + t.wide

\* runewidth.StringWidth
StringWidth(t) == t.narrow + 2 * t.wide

\* The first statement of PublishContent.
validateTitle(t) ==
    IF StringWidth(t) > TitleLimit THEN "TitleTooLong" ELSE "ok"

\* The title check applied to one title.
CheckTitle ==
    /\ titleCheck = "none"
    /\ titleCheck' = validateTitle(title)
    /\ UNCHANGED <<store, clock, accountID, title>>
    /\ UNCHANGED pureVars
    /\ UNCHANGED svcVars
    /\ UNCHANGED waitVars

\* -------------------------------------------------------- search filters

SortDefault == "comprehensive"

NoteTypeAll == "all"

PublishAll == "all"

ScopeAll == "all"

DistanceAll == "all"

\* The keys of the five label maps.
sortOptionLabels ==
    {SortDefault, "latest", "most_likes", "most_comments", "most_favorites"}

noteTypeLabels == {NoteTypeAll, "video", "image"}

publishTimeLabels == {PublishAll, "day", "week", "half_year"}

searchScopeLabels == {ScopeAll, "seen", "unseen", "followed"}

distanceLabels == {DistanceAll, "same_city", "nearby"}

\* NewSearchFilters without the check of distance.
NewSearchFiltersDistanceUnchecked(sort, noteType, publishTime, searchScope, distance) ==
    LET so == IF sort = "" THEN SortDefault ELSE sort
        nt == IF noteType = "" THEN NoteTypeAll ELSE noteType
        pt == IF publishTime = "" THEN PublishAll ELSE publishTime
        sc == IF searchScope = "" THEN ScopeAll ELSE searchScope
        di == IF distance = "" THEN DistanceAll ELSE distance
        none == [sort |-> "", noteType |-> "", publishTime |-> "",
                 searchScope |-> "", distance |-> ""]
    IN  IF so \notin sortOptionLabels
        THEN [ok |-> FALSE, err |-> "sort", filters |-> none]
        ELSE IF nt \notin noteTypeLabels
        THEN [ok |-> FALSE, err |-> "note_type", filters |-> none]
        ELSE IF pt \notin publishTimeLabels
        THEN [ok |-> FALSE, err |-> "publish_time", filters |-> none]
        ELSE IF sc \notin searchScopeLabels
        THEN [ok |-> FALSE, err |-> "search_scope", filters |-> none]
        ELSE [ok |-> TRUE, err |-> "none",
              filters |-> [sort |-> so, noteType |-> nt, publishTime |-> pt,
                           searchScope |-> sc, distance |-> di]]

\* NewSearchFilters: empty strings fall back to the defaults, then each value
\* is looked up in its label map; err is the field the error message names.
NewSearchFilters(sort, noteType, publishTime, searchScope, distance) ==
    LET so == IF sort = "" THEN SortDefault ELSE sort
        nt == IF noteType = "" THEN NoteTypeAll ELSE noteType
        pt == IF publishTime = "" THEN PublishAll ELSE publishTime
        sc == IF searchScope = "" THEN ScopeAll ELSE searchScope
        di == IF distance = "" THEN DistanceAll ELSE distance
        none == [sort |-> "", noteType |-> "", publishTime |-> "",
                 searchScope |-> "", distance |-> ""]
    IN  IF so \notin sortOptionLabels
        THEN [ok |-> FALSE, err |-> "sort", filters |-> none]
        ELSE IF nt \notin noteTypeLabels
        THEN [ok |-> FALSE, err |-> "note_type", filters |-> none]
        ELSE IF pt \notin publishTimeLabels
        THEN [ok |-> FALSE, err |-> "publish_time", filters |-> none]
        ELSE IF sc \notin searchScopeLabels
        THEN [ok |-> FALSE, err |-> "search_scope", filters |-> none]
        ELSE IF di \notin distanceLabels
        THEN [ok |-> FALSE, err |-> "distance", filters |-> none]
        ELSE [ok |-> TRUE, err |-> "none",
              filters |-> [sort |-> so, noteType |-> nt, publishTime |-> pt,
                           searchScope |-> sc, distance |-> di]]

\* Strings tried for a field: none, every value of its enumeration, a value
\* of another field's enumeration and a value of no enumeration.
Tried(labels) == labels \cup {"", "all", "latest", "nearby", "bogus"}

FilterArgs ==
    [sort : Tried(sortOptionLabels), noteType : Tried(noteTypeLabels),
     publishTime : Tried(publishTimeLabels),
     searchScope : Tried(searchScopeLabels), distance : Tried(distanceLabels)]

NoArgs ==
    [sort |-> "", noteType |-> "", publishTime |-> "", searchScope |-> "",
     distance |-> ""]

NoFilters == [ok |-> FALSE, err |-> "not called", filters |-> NoArgs]

CallNewSearchFilters ==
    /\ sfOut = NoFilters
    /\ sfOut' = NewSearchFilters(sfArgs.sort, sfArgs.noteType, sfArgs.publishTime,
                                 sfArgs.searchScope, sfArgs.distance)
    /\ UNCHANGED <<rawID, resolved, lastOp, storeOps, sfArgs, sessArgs, sessOut>>
    /\ UNCHANGED <<raceCalls, raceFile, pub, iso, srch, hcall, mrace>>
    /\ UNCHANGED sharedVars
    /\ UNCHANGED svcVars
    /\ UNCHANGED waitVars

\* ------------------------------------------------------ session creation

\* The cookie file as os.Stat and LoadCookies find it:
\*   "absent"      os.Stat answers that it does not exist
\*   "statErr"     os.Stat fails otherwise
\*   "unreadable"  it is there and LoadCookies fails
\*   "valid"       it is read and holds a cookie bundle
\*   "corrupt"     it is read and holds something else
CookieFiles == {"absent", "statErr", "unreadable", "valid", "corrupt"}

NoBrowser == [launched |-> FALSE, cookies |-> FALSE]

\* headless_browser.New: the browser is started; cookies that parse are set,
\* others are logged and left out.
headlessBrowserNew(data) == [launched |-> TRUE, cookies |-> data = "valid"]

\* browser.NewBrowser insisting on a cookie file it can read.
browserNewBrowserStrict(mkdir, file) ==
    IF mkdir /\ file \in {"absent", "valid", "corrupt"}
    THEN headlessBrowserNew(file)
    ELSE NoBrowser

\* browser.NewBrowser: ensureCookieAvailability (mkdir: its MkdirAll
\* succeeded), os.Stat, LoadCookies; every failure is a warning, and the
\* bytes that were read, if any, go to headless_browser.New.
browserNewBrowser(mkdir, file) ==
    IF ~mkdir THEN headlessBrowserNew("")
    ELSE IF file \in {"valid", "corrupt"} THEN headlessBrowserNew(file)
    ELSE headlessBrowserNew("")

\* XiaohongshuService.newBrowser with the session it returns: an error of
\* accounts.CookiesPath is returned before browser.NewBrowser is called.
newBrowserSession(s, raw, mkdir, file) ==
    Bind(newBrowser(s, raw), LAMBDA c :
        IF c.ok
        THEN [ok |-> TRUE, err |-> "none", store |-> c.store,
              session |-> browserNewBrowser(mkdir, file)]
        ELSE [ok |-> FALSE, err |-> c.err, store |-> c.store,
              session |-> NoBrowser])

SessionArgs ==
    [raw : StoreRawIDs, failAt : FailPoints(3), mkdir : BOOLEAN, file : CookieFiles]

NoSessionArgs == [raw |-> <<>>, failAt |-> -1, mkdir |-> TRUE, file |-> "absent"]

NoSession == [ok |-> FALSE, err |-> "not called", session |-> NoBrowser]

CallSession ==
    /\ sessOut = NoSession
    /\ LET r == newBrowserSession(Begin(sessArgs.failAt), sessArgs.raw,
                                  sessArgs.mkdir, sessArgs.file)
       IN  /\ sessOut' = [ok |-> r.ok, err |-> r.err, session |-> r.session]
           /\ store' = r.store
    /\ UNCHANGED <<rawID, resolved, lastOp, storeOps, sfArgs, sfOut, sessArgs>>
    /\ UNCHANGED <<raceCalls, raceFile, pub, iso, srch, hcall, mrace>>
    /\ UNCHANGED <<clock, accountID, title, titleCheck>>
    /\ UNCHANGED svcVars
    /\ UNCHANGED waitVars

\* ------------------------------------- concurrent calls for one account

\* The service has no lock: the handlers of two requests run GetLoginQrcode
\* for the same account in two goroutines, step by step in any order.
RaceCalls == {1, 2}

raceAccount == <<"e">>

\* A cookie bundle is named after the session whose cookies it holds; the
\* bundle of an earlier login is OldBundle, no file is 0.
OldBundle == 3

NoFile == [bundle |-> 0, writes |-> <<>>]

NoCall ==
    [pc |-> "start", session |-> 0, page |-> 0, loaded |-> 0, cks |-> 0,
     fault |-> "none", result |-> "none", saved |-> FALSE]

\* Nothing has been made under the data directory yet.
NoIso ==
    [dirs |-> {}, files |-> {}, ops |-> 0,
     last |-> [op |-> "none", ok |-> FALSE, id |-> <<>>, touched |-> {}]]

\* The two callers whose calls on one account run together.
MetaCallers == {1, 2}

\* No meta.json: what os.ReadFile gives for a file that is not there.
NoMetaFile ==
    [exists |-> FALSE, meta |-> [remark |-> <<>>, createdAt |-> ZeroTime,
                                 updatedAt |-> ZeroTime]]

IdleMetaCall == [op |-> "none", todo |-> <<>>, remark |-> <<>>, local |-> NoMetaFile]

\* The accounts root is empty, the clock past the zero time, nobody is calling
\* and no remark has been set.
NoMetaRace ==
    [file |-> NoMetaFile, dir |-> FALSE, clock |-> 1, started |-> 0,
     calls |-> [c \in MetaCallers |-> IdleMetaCall],
     last |-> [set |-> FALSE, remark |-> <<>>]]

\* No request has been made.
NoRequest ==
    [handler |-> "none", present |-> FALSE, raw |-> <<>>, code |-> "none",
     account |-> <<"?">>]

\* No search has been started.
NoSearch ==
    [pc |-> "idle", given |-> FALSE, filters |-> NoArgs, feeds |-> "none",
     applied |-> FALSE, tags |-> <<>>, now |-> 0, result |-> "none",
     returned |-> "none"]

\* No publish pipeline has been started.
NoPub ==
    [kind |-> "none", files |-> 0, pc |-> "idle", log |-> <<>>, now |-> 0,
     polls |-> <<>>, clicks |-> <<>>, result |-> "none"]

\* ------------------------------------------------------------- the flows

InteractFlows == {"like", "unlike", "favorite", "unfavorite"}

ReadFlows == {"listFeeds", "search", "feedDetail", "userProfile", "comment"}

ServiceFlows ==
    {"checkLoginStatus", "publishImage", "publishVideo"} \cup InteractFlows \cup ReadFlows

\* GetLoginQrcode of the service, and the interactive login program (main).
LoginFlows == {"getLoginQrcode", "login"}

Flows == ServiceFlows \cup LoginFlows

\* Like / Favorite pass true, Unlike / Unfavorite pass false to perform.
TargetOf(f) == f \in {"like", "favorite"}

\* Both actions on the like control.
SelectorOfAlwaysLike(f) == "like"

\* selectorLikeButton for LikeAction, selectorCollectButton for FavoriteAction.
SelectorOf(f) == IF f \in {"like", "unlike"} THEN "like" ELSE "collect"

\* The field of the interact state a flow looks at.
FieldOf(f, st) == IF f \in {"like", "unlike"} THEN st.liked ELSE st.collected

\* ------------------------------------------------------ getInteractState

\* What the evaluation of the embedded note detail map can give:
\*   "ok"      the map holds the feed
\*   "missing" __INITIAL_STATE__ or its noteDetailMap is not there ("")
\*   "garbled" the string does not unmarshal
\*   "absent"  the feed id is not a key of the map
\*   "panic"   MustEval itself fails (it panics)
EvalKinds == {"ok", "missing", "garbled", "absent", "panic"}

\* A cancelled context makes every page operation fail; MustEval panics.
EvalKindsNow == IF cancelled THEN {"panic"} ELSE EvalKinds

getInteractState(kind, l, c) ==
    IF kind = "ok"
    THEN [ok |-> TRUE, liked |-> l, collected |-> c]
    ELSE [ok |-> FALSE, liked |-> FALSE, collected |-> FALSE]

\* ----------------------------------------------------------- performClick

\*   "ok"        the element was found and Click returned nil
\*   "notfound"  page.Element returned an error: nothing was clicked
\*   "clickerr"  the element was found and Click returned an error
ClickKinds == {"ok", "notfound", "clickerr"}

ClickKindsNow == IF cancelled THEN {"notfound"} ELSE ClickKinds

\* The page's answer to a click that went through: its handler toggles the
\* feed's state, or does nothing (a login wall, a handler not yet bound).
ClickEffects == {"flip", "none"}

Flip(sel, eff, which, v) == IF sel = which /\ eff = "flip" THEN ~v ELSE v

\* performClick(page, selector), with the page's reaction.
performClick(sel, kind, eff) ==
    /\ clickLog' = Append(clickLog, [sel |-> sel, res |-> kind,
                                     eff |-> IF kind = "ok" THEN eff ELSE "none"])
    /\ realLiked' = IF kind = "ok" THEN Flip(sel, eff, "like", realLiked) ELSE realLiked
    /\ realCollected' =
           IF kind = "ok" THEN Flip(sel, eff, "collect", realCollected) ELSE realCollected
    /\ UNCHANGED <<embLiked, embCollected>>

\* ------------------------------------------------------- leaving a function

\* A return, a panic or a process exit: the deferred calls run next (Unwind),
\* except after logrus.Fatalf, which exits the process at once.
Leave(how) ==
    /\ pc' = "unwind"
    /\ exitHow' = how

\* The deferred calls that run when the function is left: all of them, also
\* when it is left by a panic.
DeferredToRunOnReturnOnly(how, stack) == IF how \in {"fatal", "panic"} THEN <<>> ELSE stack

DeferredToRun(how, stack) == IF how = "fatal" THEN <<>> ELSE stack

\* ------------------------------------------------------------ saveCookies

\* saveCookies(accountID, page): GetCookies, json.Marshal, CookiesPath and
\* SaveCookies can each fail; only when all succeed is the file overwritten.
SaveOutcomes == {"ok", "getCookiesErr", "marshalErr", "pathErr", "writeErr"}

\* The cookies are read from the live browser: a closed one gives none.
SaveOutcomesNow ==
    IF browser = "open" /\ page = "open" THEN SaveOutcomes ELSE {"getCookiesErr"}

saveCookies(out) ==
    /\ saveOut' = out
    /\ cookieFile' = IF out = "ok" THEN callNo ELSE cookieFile

\* --------------------------------------------------------- a service call

SvcInit ==
    /\ flow = "none"
    /\ pc = "idle"
    /\ callNo = 0
    /\ cancelled = FALSE
    /\ browser = "none"
    /\ page = "none"
    /\ deferStack = <<>>
    /\ exitHow = "none"
    /\ result = "none"
    /\ realLiked = FALSE
    /\ realCollected = FALSE
    /\ embLiked = FALSE
    /\ embCollected = FALSE
    /\ reads = <<>>
    /\ clickLog = <<>>
    /\ cookieFile = 0
    /\ authSeen = FALSE
    /\ bgpc = "idle"
    /\ bgTime = 0
    /\ bgDefers = <<>>
    /\ saveOut = "none"
    /\ loggedIn = FALSE

WaitInit ==
    /\ wCaller = "none"
    /\ wpc = "idle"
    /\ wNow = 0
    /\ wPolls = <<>>
    /\ wResult = "none"
    /\ wCancelled = FALSE
    /\ wPollsAfter = 0

\* No call has been made: nothing was resolved, the data root is empty.
AcctInit ==
    /\ resolved = NoResult
    /\ store = EmptyStore
    /\ clock = ZeroTime
    /\ lastOp = NoOp
    /\ storeOps = 0
    /\ accountID = <<>>
    /\ title = NoTitle
    /\ titleCheck = "none"
    /\ sfOut = NoFilters
    /\ sessOut = NoSession
    /\ raceCalls = [i \in RaceCalls |-> NoCall]
    /\ pub = NoPub
    /\ iso = NoIso
    /\ srch = NoSearch
    /\ hcall = NoRequest
    /\ mrace = NoMetaRace

Init ==
    /\ SvcInit /\ WaitInit /\ AcctInit
    /\ rawID = <<>> /\ sfArgs = NoArgs /\ sessArgs = NoSessionArgs
    /\ raceFile = NoFile

\* The account store used on its own.
SpecAccounts == Init /\ [][NextAccounts]_vars

\* ResolveAccountID on every raw identifier up to MaxIdLen characters.
InitResolve ==
    /\ SvcInit /\ WaitInit /\ AcctInit
    /\ rawID \in RawIDs /\ sfArgs = NoArgs /\ sessArgs = NoSessionArgs
    /\ raceFile = NoFile

SpecResolve == InitResolve /\ [][CallResolveAccountID]_vars

\* The title check on every title of up to MaxTitleRunes narrow and
\* MaxTitleRunes wide characters.
InitTitle ==
    /\ SvcInit /\ WaitInit
    /\ rawID = <<>>
    /\ resolved = NoResult
    /\ store = EmptyStore
    /\ clock = ZeroTime
    /\ lastOp = NoOp
    /\ storeOps = 0
    /\ accountID = <<>>
    /\ title \in [narrow : 0..MaxTitleRunes, wide : 0..MaxTitleRunes]
    /\ titleCheck = "none"
    /\ sfArgs = NoArgs
    /\ sessArgs = NoSessionArgs
    /\ raceFile = NoFile
    /\ sfOut = NoFilters
    /\ sessOut = NoSession
    /\ raceCalls = [i \in RaceCalls |-> NoCall]
    /\ pub = NoPub
    /\ iso = NoIso
    /\ srch = NoSearch
    /\ hcall = NoRequest
    /\ mrace = NoMetaRace

SpecTitle == InitTitle /\ [][CheckTitle]_vars

\* NewSearchFilters on every combination of filter strings.
InitFilters ==
    /\ SvcInit /\ WaitInit /\ AcctInit
    /\ rawID = <<>> /\ sfArgs \in FilterArgs /\ sessArgs = NoSessionArgs
    /\ raceFile = NoFile

\* newBrowser on every identifier, disk failure and state of the cookie file.
InitSession ==
    /\ SvcInit /\ WaitInit /\ AcctInit
    /\ rawID = <<>> /\ sfArgs = NoArgs /\ sessArgs \in SessionArgs
    /\ raceFile = NoFile

SpecSession == InitSession /\ [][CallSession]_vars

SpecFilters == InitFilters /\ [][CallNewSearchFilters]_vars

\* Positions inside the body of a service function, where the caller's
\* context can still be cancelled under it.
BodyPcs == {"validate", "processImages", "newBrowser", "newPage", "action",
            "prepare", "read0", "click1", "read1", "click2", "read2", "fetchQr"}

InteractPcs == {"prepare", "read0", "click1", "read1", "click2", "read2"}

\* Where the body of each operation begins: PublishContent with the title
\* check, the login program with ResolveAccountID, every other one, PublishVideo
\* included, with newBrowser.
FirstStepImagesFirst(f) ==
    CASE f = "publishImage" -> "processImages"
      [] f = "login" -> "resolve"
      [] OTHER -> "newBrowser"

FirstStep(f) ==
    CASE f = "publishImage" -> "validate"
      [] f = "login" -> "resolve"
      [] OTHER -> "newBrowser"

\* The titles publish requests are made with: at the limit and just over it,
\* in narrow and in wide characters.
CallTitles ==
    {[narrow |-> 40, wide |-> 0], [narrow |-> 41, wide |-> 0],
     [narrow |-> 0, wide |-> 20], [narrow |-> 0, wide |-> 21]}

\* The account identifiers a service call is made with.
CallAccountIDs == {<<>>, <<"e">>, <<"Z", "/">>}

\* A caller starts one operation; the feed it names is in any state.
Call(f) ==
    /\ pc \in {"idle", "returned"}
    /\ bgpc \in {"idle", "done"}
    /\ callNo < MaxCalls
    /\ flow' = f
    /\ callNo' = callNo + 1
    /\ pc' = FirstStep(f)
    /\ authSeen' = FALSE
    /\ bgpc' = "idle"
    /\ bgTime' = 0
    /\ bgDefers' = <<>>
    /\ saveOut' = "none"
    /\ loggedIn' = FALSE
    /\ UNCHANGED cookieFile
    /\ cancelled' = FALSE
    /\ browser' = "none"
    /\ page' = "none"
    /\ deferStack' = <<>>
    /\ exitHow' = "none"
    /\ result' = "none"
    /\ reads' = <<>>
    /\ clickLog' = <<>>
    /\ \E l \in BOOLEAN, c \in BOOLEAN :
          /\ realLiked' = (l /\ f \in InteractFlows)
          /\ realCollected' = (c /\ f \in InteractFlows)
          /\ embLiked' = (l /\ f \in InteractFlows)
          /\ embCollected' = (c /\ f \in InteractFlows)
    /\ accountID' \in CallAccountIDs
    /\ title' \in (IF f \in {"publishImage", "publishVideo"} THEN CallTitles ELSE {NoTitle})
    /\ titleCheck' = "none"
    /\ UNCHANGED <<store, clock>>
    /\ UNCHANGED waitVars
    /\ UNCHANGED pureVars

\* The caller cancels its context while the call is running.
Cancel ==
    /\ \/ pc \in BodyPcs
       \/ pc \in {"unwind", "returned"} /\ bgpc = "wait"
    /\ flow # "login"
    /\ ~cancelled
    /\ cancelled' = TRUE
    /\ UNCHANGED <<flow, pc, callNo, browser, page, deferStack, exitHow, result,
                   realLiked, realCollected, embLiked, embCollected, reads, clickLog>>
    /\ UNCHANGED loginVars
    /\ UNCHANGED waitVars
    /\ UNCHANGED pureVars
    /\ UNCHANGED sharedVars

\* PublishContent: the title check comes first.
PublishContentValidate ==
    /\ pc = "validate"
    /\ titleCheck' = validateTitle(title)
    /\ IF validateTitle(title) = "TitleTooLong"
       THEN Leave("err")
       ELSE pc' = "processImages" /\ UNCHANGED exitHow
    /\ UNCHANGED <<flow, callNo, cancelled, browser, page, deferStack, result,
                   realLiked, realCollected, embLiked, embCollected, reads, clickLog>>
    /\ UNCHANGED <<store, clock, accountID, title>>
    /\ UNCHANGED loginVars
    /\ UNCHANGED waitVars
    /\ UNCHANGED pureVars

\* processImages: ImagesDir and the downloader; either may fail.
ProcessImages ==
    /\ pc = "processImages"
    /\ \E f \in FailPoints(4), downloads \in BOOLEAN :
          LET s == processImages(Begin(f), accountID, downloads)
          IN  /\ store' = s.store
              /\ IF s.ok
                 THEN pc' = "newBrowser" /\ UNCHANGED exitHow
                 ELSE Leave("err")
    /\ UNCHANGED <<flow, callNo, cancelled, browser, page, deferStack, result,
                   realLiked, realCollected, embLiked, embCollected, reads, clickLog>>
    /\ UNCHANGED <<clock, accountID, title, titleCheck>>
    /\ UNCHANGED loginVars
    /\ UNCHANGED waitVars
    /\ UNCHANGED pureVars

\* GetLoginQrcode defers nothing when it gets its browser and page: it
\* builds deferFunc and decides later who runs it. Every other flow defers
\* b.Close and page.Close right where it gets them.
DefersOnAcquire(f, call) == IF f = "getLoginQrcode" THEN <<>> ELSE <<call>>

\* newBrowser(accountID), then `defer b.Close()`: the cookies path cannot be
\* resolved (no browser is launched), or the browser is launched. The login
\* program resolves the cookies path itself and stops with Fatalf if it cannot.
NewBrowser ==
    /\ pc = "newBrowser"
    /\ \E f \in FailPoints(3) :
          LET s == newBrowser(Begin(f), accountID)
          IN  /\ store' = s.store
              /\ IF s.ok
                 THEN /\ browser' = "open"
                      /\ deferStack' = DefersOnAcquire(flow, "b.Close") \o deferStack
                      /\ pc' = "newPage"
                      /\ UNCHANGED exitHow
                 ELSE /\ Leave(IF flow = "login" THEN "fatal" ELSE "err")
                      /\ UNCHANGED <<browser, deferStack>>
    /\ UNCHANGED <<flow, callNo, cancelled, page, result,
                   realLiked, realCollected, embLiked, embCollected, reads, clickLog>>
    /\ UNCHANGED <<clock, accountID, title, titleCheck>>
    /\ UNCHANGED loginVars
    /\ UNCHANGED waitVars
    /\ UNCHANGED pureVars

\* page := b.NewPage(), then `defer page.Close()`.
NewPage ==
    /\ pc = "newPage"
    /\ page' = "open"
    /\ deferStack' = DefersOnAcquire(flow, "page.Close") \o deferStack
    /\ pc' = CASE flow \in InteractFlows -> "prepare"
              [] flow = "getLoginQrcode" -> "fetchQr"
              [] flow = "login" -> "checkLogin"
              [] OTHER -> "action"
    /\ UNCHANGED <<flow, callNo, cancelled, browser, exitHow, result,
                   realLiked, realCollected, embLiked, embCollected, reads, clickLog>>
    /\ UNCHANGED loginVars
    /\ UNCHANGED waitVars
    /\ UNCHANGED pureVars
    /\ UNCHANGED sharedVars

\* How the page work of the other flows can end. The flows whose code uses
\* rod's Must* calls can panic; list feeds and user profile return errors only.
ActionOutcomes(f) ==
    IF f \in {"listFeeds", "userProfile"} THEN {"ok", "err"} ELSE {"ok", "err", "panic"}

FlowAction ==
    /\ pc = "action"
    /\ \E out \in ActionOutcomes(flow) :
          /\ cancelled => out # "ok"
          /\ Leave(out)
    /\ UNCHANGED <<flow, callNo, cancelled, browser, page, deferStack, result,
                   realLiked, realCollected, embLiked, embCollected, reads, clickLog>>
    /\ UNCHANGED loginVars
    /\ UNCHANGED waitVars
    /\ UNCHANGED pureVars
    /\ UNCHANGED sharedVars

\* ------------------------------------------------- the interact protocol

\* The page applies a click's effect to its embedded state some time after the
\* click: until then a read still shows the old value.
PageSettle ==
    /\ pc \in InteractPcs
    /\ <<embLiked, embCollected>> # <<realLiked, realCollected>>
    /\ embLiked' = realLiked
    /\ embCollected' = realCollected
    /\ UNCHANGED <<flow, pc, callNo, cancelled, browser, page, deferStack, exitHow,
                   result, realLiked, realCollected, reads, clickLog>>
    /\ UNCHANGED loginVars
    /\ UNCHANGED waitVars
    /\ UNCHANGED pureVars
    /\ UNCHANGED sharedVars

\* preparePage: Navigate (an error is returned), MustWaitDOMStable (panics).
PrepareOutcomes == IF cancelled THEN {"naverr"} ELSE {"ok", "naverr", "panic"}

preparePage ==
    /\ pc = "prepare"
    /\ \E out \in PrepareOutcomes :
          CASE out = "ok" -> pc' = "read0" /\ UNCHANGED exitHow
            [] out = "naverr" -> Leave("err")
            [] out = "panic" -> Leave("panic")
    /\ UNCHANGED <<flow, callNo, cancelled, browser, page, deferStack, result,
                   realLiked, realCollected, embLiked, embCollected, reads, clickLog>>
    /\ UNCHANGED loginVars
    /\ UNCHANGED waitVars
    /\ UNCHANGED pureVars
    /\ UNCHANGED sharedVars

\* perform: `targetLiked && liked` or `!targetLiked && !liked` skips the click.
AlreadyAtTargetOneWay(tgt, v) == tgt /\ v

AlreadyAtTarget(tgt, v) == (tgt /\ v) \/ (~tgt /\ ~v)

\* perform returning nil on a read that failed as on one at the target.
SkipsClickAlsoUnread(f, st) == ~st.ok \/ AlreadyAtTarget(TargetOf(f), FieldOf(f, st))

\* `if err != nil { return a.toggleLike(...) }`: a failed first read goes on to
\* the toggle; a read at the target returns nil without a click.
SkipsClick(f, st) == st.ok /\ AlreadyAtTarget(TargetOf(f), FieldOf(f, st))

\* perform, from the first getInteractState on.
perform ==
    /\ pc = "read0"
    /\ \E kind \in EvalKindsNow :
          LET st == getInteractState(kind, embLiked, embCollected) IN
          IF kind = "panic"
          THEN Leave("panic") /\ UNCHANGED reads
          ELSE /\ reads' = Append(reads, st)
               /\ IF SkipsClick(flow, st)
                  THEN Leave("ok")
                  ELSE pc' = "click1" /\ UNCHANGED exitHow
    /\ UNCHANGED <<flow, callNo, cancelled, browser, page, deferStack, result,
                   realLiked, realCollected, embLiked, embCollected, clickLog>>
    /\ UNCHANGED loginVars
    /\ UNCHANGED waitVars
    /\ UNCHANGED pureVars
    /\ UNCHANGED sharedVars

\* toggleLike / toggleFavorite: the first click.
toggleClick1 ==
    /\ pc = "click1"
    /\ \E kind \in ClickKindsNow, eff \in ClickEffects :
          /\ performClick(SelectorOf(flow), kind, eff)
          /\ IF kind = "ok"
             THEN pc' = "read1" /\ UNCHANGED exitHow
             ELSE Leave("err")
    /\ UNCHANGED <<flow, callNo, cancelled, browser, page, deferStack, result, reads>>
    /\ UNCHANGED loginVars
    /\ UNCHANGED waitVars
    /\ UNCHANGED pureVars
    /\ UNCHANGED sharedVars

\* After the first click: a failed read and a read equal to the target both
\* return nil; only a successful read that differs goes on to click again.
NeedSecondClickAlsoUnverified(f, st) == ~st.ok \/ FieldOf(f, st) # TargetOf(f)

NeedSecondClick(f, st) == st.ok /\ FieldOf(f, st) # TargetOf(f)

toggleRead1 ==
    /\ pc = "read1"
    /\ \E kind \in EvalKindsNow :
          LET st == getInteractState(kind, embLiked, embCollected) IN
          IF kind = "panic"
          THEN Leave("panic") /\ UNCHANGED reads
          ELSE /\ reads' = Append(reads, st)
               /\ IF NeedSecondClick(flow, st)
                  THEN pc' = "click2" /\ UNCHANGED exitHow
                  ELSE Leave("ok")
    /\ UNCHANGED <<flow, callNo, cancelled, browser, page, deferStack, result,
                   realLiked, realCollected, embLiked, embCollected, clickLog>>
    /\ UNCHANGED loginVars
    /\ UNCHANGED waitVars
    /\ UNCHANGED pureVars
    /\ UNCHANGED sharedVars

\* The second click.
toggleClick2 ==
    /\ pc = "click2"
    /\ \E kind \in ClickKindsNow, eff \in ClickEffects :
          /\ performClick(SelectorOf(flow), kind, eff)
          /\ IF kind = "ok"
             THEN pc' = "read2" /\ UNCHANGED exitHow
             ELSE Leave("err")
    /\ UNCHANGED <<flow, callNo, cancelled, browser, page, deferStack, result, reads>>
    /\ UNCHANGED loginVars
    /\ UNCHANGED waitVars
    /\ UNCHANGED pureVars
    /\ UNCHANGED sharedVars

\* After the second read toggleLike returns nil whatever it read: a failed
\* read, a match, and a state that still differs.
AfterSecondReadRetry(f, st) ==
    IF st.ok /\ FieldOf(f, st) # TargetOf(f) THEN "click2" ELSE "ok"

AfterSecondRead(f, st) == "ok"

toggleRead2 ==
    /\ pc = "read2"
    /\ \E kind \in EvalKindsNow :
          LET st == getInteractState(kind, embLiked, embCollected) IN
          IF kind = "panic"
          THEN Leave("panic") /\ UNCHANGED reads
          ELSE /\ reads' = Append(reads, st)
               /\ IF AfterSecondRead(flow, st) = "ok"
                  THEN Leave("ok")
                  ELSE pc' = "click2" /\ UNCHANGED exitHow
    /\ UNCHANGED <<flow, callNo, cancelled, browser, page, deferStack, result,
                   realLiked, realCollected, embLiked, embCollected, clickLog>>
    /\ UNCHANGED loginVars
    /\ UNCHANGED waitVars
    /\ UNCHANGED pureVars
    /\ UNCHANGED sharedVars

\* -------------------------------------------------------- GetLoginQrcode

\* LoginAction.FetchQrcodeImage: an error, the account is already logged in,
\* or a QR image for an account that is not.
FetchOutcomes == IF cancelled THEN {"err"} ELSE {"err", "loggedIn", "qr"}

\* `if err != nil || loggedIn { defer deferFunc() }`: in these cases the
\* calling goroutine releases the session itself.
CallerReleasesAlways(out) == TRUE

\* The same with deferFunc deferred on an error only.
CallerReleasesOnError(out) == out = "err"

CallerReleases(out) == out \in {"err", "loggedIn"}

\* deferFunc closing the page and leaving the browser.
deferFuncPageOnly == <<"page.Close">>

\* deferFunc closes the page, then the browser.
deferFunc == <<"page.Close", "b.Close">>

\* `if loginAction.WaitForLogin(ctxTimeout) { saveCookies(...) }`.
SavesWhateverTheWait(waitOk) == TRUE

SavesAfterWait(waitOk) == waitOk

\* The wait called in place, without `go`: the caller would stay until it ends.
CallerWaitsForInline(bg) == bg \notin {"idle", "done"}

\* `go func(account string) { ... }(accountID)`: the wait runs in a goroutine
\* of its own, and the calling goroutine goes on to its return whatever the
\* position bg of that goroutine.
CallerWaitsFor(bg) == FALSE

\* GetLoginQrcode from FetchQrcodeImage to its return; for an account that is
\* not logged in it starts the goroutine, whose first statements defer cancel
\* and deferFunc.
GetLoginQrcode ==
    /\ pc = "fetchQr"
    /\ \E out \in FetchOutcomes :
          /\ deferStack' = IF CallerReleases(out) THEN deferFunc \o deferStack ELSE deferStack
          /\ Leave(IF out = "err" THEN "err" ELSE "ok")
          /\ IF out = "qr"
             THEN /\ bgpc' = "wait"
                  /\ bgDefers' = deferFunc \o <<"cancel">>
             ELSE UNCHANGED <<bgpc, bgDefers>>
          /\ loggedIn' = (out = "loggedIn")
    /\ UNCHANGED <<flow, callNo, cancelled, browser, page, result,
                   realLiked, realCollected, embLiked, embCollected, reads, clickLog,
                   cookieFile, authSeen, bgTime, saveOut>>
    /\ UNCHANGED waitVars
    /\ UNCHANGED pureVars
    /\ UNCHANGED sharedVars

\* LoginAction.WaitForLogin(ctxTimeout), one poll: the user has scanned the
\* code, has not yet, or the page failed. It returns true in the first case
\* and false in the last; the goroutine saves the cookies on true.
WaitOutcomes == {"authenticated", "pending", "failed"}

\* The wait under a context derived from the caller's.
bgCtxDoneWithCaller(callerCancelled) == callerCancelled

\* `ctxTimeout, cancel := context.WithTimeout(context.Background(), timeout)`:
\* the wait's context has no parent but the background context, so the
\* caller's cancellation never ends it; only its deadline does.
bgCtxDone(callerCancelled) == FALSE

\* A wait whose context is done returns false and sees no login.
WaitOutcomesNow == IF bgCtxDone(cancelled) THEN {"failed"} ELSE WaitOutcomes

WaitForLoginPoll ==
    /\ bgpc = "wait"
    /\ bgTime < LoginWaitTicks
    /\ bgTime' = bgTime + 1
    /\ \E out \in WaitOutcomesNow :
          IF out = "pending"
          THEN UNCHANGED <<bgpc, authSeen>>
          ELSE /\ authSeen' = (out = "authenticated")
               /\ bgpc' = IF SavesAfterWait(out = "authenticated") THEN "save" ELSE "unwind"
    /\ UNCHANGED <<flow, pc, callNo, cancelled, browser, page, deferStack, exitHow, result,
                   realLiked, realCollected, embLiked, embCollected, reads, clickLog,
                   cookieFile, bgDefers, saveOut, loggedIn>>
    /\ UNCHANGED waitVars
    /\ UNCHANGED pureVars
    /\ UNCHANGED sharedVars

\* The deadline of ctxTimeout passes: WaitForLogin returns false.
WaitForLoginDeadline ==
    /\ bgpc = "wait"
    /\ bgTime = LoginWaitTicks
    /\ bgpc' = IF SavesAfterWait(FALSE) THEN "save" ELSE "unwind"
    /\ UNCHANGED <<flow, pc, callNo, cancelled, browser, page, deferStack, exitHow, result,
                   realLiked, realCollected, embLiked, embCollected, reads, clickLog,
                   cookieFile, authSeen, bgTime, bgDefers, saveOut, loggedIn>>
    /\ UNCHANGED waitVars
    /\ UNCHANGED pureVars
    /\ UNCHANGED sharedVars

\* The goroutine's saveCookies; a failure is logged and nothing else.
BgSaveCookies ==
    /\ bgpc = "save"
    /\ \E out \in SaveOutcomesNow : saveCookies(out)
    /\ bgpc' = "unwind"
    /\ UNCHANGED <<flow, pc, callNo, cancelled, browser, page, deferStack, exitHow, result,
                   realLiked, realCollected, embLiked, embCollected, reads, clickLog,
                   authSeen, bgTime, bgDefers, loggedIn>>
    /\ UNCHANGED waitVars
    /\ UNCHANGED pureVars
    /\ UNCHANGED sharedVars

\* The goroutine's deferred calls: page.Close, b.Close, cancel.
BgRunDeferred ==
    /\ bgpc = "unwind"
    /\ bgDefers # <<>>
    /\ page' = IF Head(bgDefers) = "page.Close" THEN "closed" ELSE page
    /\ browser' = IF Head(bgDefers) = "b.Close" THEN "closed" ELSE browser
    /\ bgDefers' = Tail(bgDefers)
    /\ UNCHANGED <<flow, pc, callNo, cancelled, deferStack, exitHow, result,
                   realLiked, realCollected, embLiked, embCollected, reads, clickLog,
                   cookieFile, authSeen, bgpc, bgTime, saveOut, loggedIn>>
    /\ UNCHANGED waitVars
    /\ UNCHANGED pureVars
    /\ UNCHANGED sharedVars

BgDone ==
    /\ bgpc = "unwind"
    /\ bgDefers = <<>>
    /\ bgpc' = "done"
    /\ UNCHANGED <<flow, pc, callNo, cancelled, browser, page, deferStack, exitHow, result,
                   realLiked, realCollected, embLiked, embCollected, reads, clickLog,
                   cookieFile, authSeen, bgTime, bgDefers, saveOut, loggedIn>>
    /\ UNCHANGED waitVars
    /\ UNCHANGED pureVars
    /\ UNCHANGED sharedVars

\* ---------------------------------- two calls for one account, step by step

\* One browser for all calls.
sessionForShared(i) == 1

\* browser.NewBrowser ends in headless_browser.New(opts...): call i gets a
\* browser of its own, and b.NewPage() a page of that browser.
sessionFor(i) == i

RaceFrame ==
    /\ UNCHANGED svcVars
    /\ UNCHANGED waitVars
    /\ UNCHANGED <<rawID, resolved, lastOp, storeOps, sfArgs, sfOut, sessArgs, sessOut>>
    /\ UNCHANGED <<clock, accountID, title, titleCheck, pub, iso, srch, hcall, mrace>>

\* newBrowser and NewPage of call i: the cookie path is made on the shared
\* data root, the cookie file is read as it is at this moment.
raceNewBrowser(i) ==
    /\ raceCalls[i].pc = "start"
    /\ LET r == newBrowserSession(Begin(-1), raceAccount, TRUE,
                                  IF raceFile.bundle = 0 THEN "absent" ELSE "valid")
       IN  /\ store' = r.store
           /\ raceCalls' =
                 [raceCalls EXCEPT ![i] =
                    IF r.ok /\ r.session.launched
                    THEN [@ EXCEPT !.pc = "fetch", !.session = sessionFor(i),
                                   !.page = sessionFor(i),
                                   !.loaded = IF r.session.cookies
                                              THEN raceFile.bundle ELSE 0]
                    ELSE [@ EXCEPT !.pc = "closed", !.result = "err"]]
    /\ UNCHANGED raceFile
    /\ RaceFrame

\* FetchQrcodeImage of call i: an error, logged in already (with the cookies
\* it loaded), or a QR image, after which the goroutine waits.
raceFetch(i) ==
    /\ raceCalls[i].pc = "fetch"
    /\ \E out \in {"err", "qr"} \cup (IF raceCalls[i].loaded # 0 THEN {"loggedIn"} ELSE {}) :
          raceCalls' =
             [raceCalls EXCEPT ![i] =
                CASE out = "err" -> [@ EXCEPT !.pc = "close", !.result = "err",
                                              !.fault = "fetch"]
                  [] out = "loggedIn" -> [@ EXCEPT !.pc = "close", !.result = "loggedIn"]
                  [] out = "qr" -> [@ EXCEPT !.pc = "wait", !.result = "qr"]]
    /\ UNCHANGED <<store, raceFile>>
    /\ RaceFrame

\* WaitForLogin of call i returns: true, or false (deadline, page failure).
raceWait(i) ==
    /\ raceCalls[i].pc = "wait"
    /\ \E ok \in BOOLEAN :
          raceCalls' =
             [raceCalls EXCEPT ![i] =
                IF SavesAfterWait(ok)
                THEN [@ EXCEPT !.pc = "getCookies"]
                ELSE [@ EXCEPT !.pc = "close", !.fault = "wait"]]
    /\ UNCHANGED <<store, raceFile>>
    /\ RaceFrame

\* saveCookies of call i, first half: page.Browser().GetCookies() and
\* json.Marshal, on the browser of its own page.
raceGetCookies(i) ==
    /\ raceCalls[i].pc = "getCookies"
    /\ \E ok \in BOOLEAN :
          raceCalls' =
             [raceCalls EXCEPT ![i] =
                IF ok
                THEN [@ EXCEPT !.pc = "write", !.cks = raceCalls[i].page]
                ELSE [@ EXCEPT !.pc = "close", !.fault = "save"]]
    /\ UNCHANGED <<store, raceFile>>
    /\ RaceFrame

\* saveCookies of call i, second half: CookiesPath and SaveCookies, which
\* overwrites the file with the marshalled bundle.
raceWrite(i) ==
    /\ raceCalls[i].pc = "write"
    /\ LET c == CookiesPath(Begin(-1), raceAccount)
       IN  /\ store' = c.store
           /\ IF c.ok
              THEN /\ raceFile' = [bundle |-> raceCalls[i].cks,
                                   writes |-> Append(raceFile.writes, i)]
                   /\ raceCalls' = [raceCalls EXCEPT ![i].pc = "close",
                                                     ![i].saved = TRUE]
              ELSE /\ UNCHANGED raceFile
                   /\ raceCalls' = [raceCalls EXCEPT ![i].pc = "close"]
    /\ RaceFrame

\* deferFunc of call i: its page and its browser are closed.
raceClose(i) ==
    /\ raceCalls[i].pc = "close"
    /\ raceCalls' = [raceCalls EXCEPT ![i].pc = "closed"]
    /\ UNCHANGED <<store, raceFile>>
    /\ RaceFrame

NextRace ==
    \E i \in RaceCalls :
        \/ raceNewBrowser(i)
        \/ raceFetch(i)
        \/ raceWait(i)
        \/ raceGetCookies(i)
        \/ raceWrite(i)
        \/ raceClose(i)

\* Two GetLoginQrcode calls for one account, whose cookie file is not there
\* yet or holds the bundle of an earlier login.
InitRace ==
    /\ SvcInit /\ WaitInit /\ AcctInit
    /\ rawID = <<>> /\ sfArgs = NoArgs /\ sessArgs = NoSessionArgs
    /\ raceFile \in {NoFile, [NoFile EXCEPT !.bundle = OldBundle]}

SpecRace == InitRace /\ [][NextRace]_vars

\* ----------------------------------------------- the interactive login (main)

\* accounts.ResolveAccountID: an invalid --account ends in logrus.Fatalf.
mainResolve ==
    /\ pc = "resolve"
    /\ LET r == ResolveAccountID(accountID)
       IN  IF r.ok
           THEN pc' = "newBrowser" /\ accountID' = r.id /\ UNCHANGED exitHow
           ELSE Leave("fatal") /\ UNCHANGED accountID
    /\ UNCHANGED <<flow, callNo, cancelled, browser, page, deferStack, result,
                   realLiked, realCollected, embLiked, embCollected, reads, clickLog>>
    /\ UNCHANGED <<store, clock, title, titleCheck>>
    /\ UNCHANGED loginVars
    /\ UNCHANGED waitVars
    /\ UNCHANGED pureVars

\* action.CheckLoginStatus: an error is fatal, a logged-in account returns.
mainCheckLogin ==
    /\ pc = "checkLogin"
    /\ \E out \in {"err", "in", "out"} :
          CASE out = "err" -> Leave("fatal")
            [] out = "in" -> Leave("ok")
            [] out = "out" -> pc' = "login" /\ UNCHANGED exitHow
    /\ UNCHANGED <<flow, callNo, cancelled, browser, page, deferStack, result,
                   realLiked, realCollected, embLiked, embCollected, reads, clickLog>>
    /\ UNCHANGED loginVars
    /\ UNCHANGED waitVars
    /\ UNCHANGED pureVars
    /\ UNCHANGED sharedVars

\* action.Login: it returns nil once the user is logged in; an error is fatal.
mainLogin ==
    /\ pc = "login"
    /\ \E ok \in BOOLEAN :
          IF ok
          THEN pc' = "saveCookies" /\ authSeen' = TRUE /\ UNCHANGED exitHow
          ELSE Leave("fatal") /\ UNCHANGED authSeen
    /\ UNCHANGED <<flow, callNo, cancelled, browser, page, deferStack, result,
                   realLiked, realCollected, embLiked, embCollected, reads, clickLog,
                   cookieFile, bgpc, bgTime, bgDefers, saveOut, loggedIn>>
    /\ UNCHANGED waitVars
    /\ UNCHANGED pureVars
    /\ UNCHANGED sharedVars

\* saveCookies after a login without error; its failure is fatal.
mainSaveCookies ==
    /\ pc = "saveCookies"
    /\ \E out \in SaveOutcomesNow :
          /\ saveCookies(out)
          /\ IF out = "ok" THEN pc' = "recheck" /\ UNCHANGED exitHow ELSE Leave("fatal")
    /\ UNCHANGED <<flow, callNo, cancelled, browser, page, deferStack, result,
                   realLiked, realCollected, embLiked, embCollected, reads, clickLog,
                   authSeen, bgpc, bgTime, bgDefers, loggedIn>>
    /\ UNCHANGED waitVars
    /\ UNCHANGED pureVars
    /\ UNCHANGED sharedVars

\* The second CheckLoginStatus: an error is fatal, either status returns.
mainRecheck ==
    /\ pc = "recheck"
    /\ \E ok \in BOOLEAN : Leave(IF ok THEN "ok" ELSE "fatal")
    /\ UNCHANGED <<flow, callNo, cancelled, browser, page, deferStack, result,
                   realLiked, realCollected, embLiked, embCollected, reads, clickLog>>
    /\ UNCHANGED loginVars
    /\ UNCHANGED waitVars
    /\ UNCHANGED pureVars
    /\ UNCHANGED sharedVars

\* ------------------------------------------------------ deferred calls

\* One deferred call runs: page.Close or b.Close.
RunDeferred ==
    /\ pc = "unwind"
    /\ DeferredToRun(exitHow, deferStack) # <<>>
    /\ LET d == Head(DeferredToRun(exitHow, deferStack)) IN
          /\ page' = IF d = "page.Close" THEN "closed" ELSE page
          /\ browser' = IF d = "b.Close" THEN "closed" ELSE browser
          /\ deferStack' = Tail(DeferredToRun(exitHow, deferStack))
    /\ UNCHANGED <<flow, pc, callNo, cancelled, exitHow, result,
                   realLiked, realCollected, embLiked, embCollected, reads, clickLog>>
    /\ UNCHANGED loginVars
    /\ UNCHANGED waitVars
    /\ UNCHANGED pureVars
    /\ UNCHANGED sharedVars

\* The function is left for good: the caller has its result (a service
\* function that returned nil answers Success: true).
Return ==
    /\ pc = "unwind"
    /\ DeferredToRun(exitHow, deferStack) = <<>>
    /\ ~CallerWaitsFor(bgpc)
    /\ pc' = "returned"
    /\ result' = exitHow
    /\ UNCHANGED <<flow, callNo, cancelled, browser, page, deferStack, exitHow,
                   realLiked, realCollected, embLiked, embCollected, reads, clickLog>>
    /\ UNCHANGED loginVars
    /\ UNCHANGED waitVars
    /\ UNCHANGED pureVars
    /\ UNCHANGED sharedVars

Next ==
    \/ \E f \in Flows : Call(f)
    \/ Cancel
    \/ PublishContentValidate
    \/ ProcessImages
    \/ NewBrowser
    \/ NewPage
    \/ FlowAction
    \/ PageSettle
    \/ preparePage
    \/ perform
    \/ toggleClick1
    \/ toggleRead1
    \/ toggleClick2
    \/ toggleRead2
    \/ GetLoginQrcode
    \/ WaitForLoginPoll
    \/ WaitForLoginDeadline
    \/ BgSaveCookies
    \/ BgRunDeferred
    \/ BgDone
    \/ mainResolve
    \/ mainCheckLogin
    \/ mainLogin
    \/ mainSaveCookies
    \/ mainRecheck
    \/ RunDeferred
    \/ Return

Spec == Init /\ [][Next]_vars

\* ---------------------------------------------------------------- the waits

\* The functions that run a polling wait, and the wait each runs.
WaitCallers ==
    {"NewFeedsListAction", "UserProfile", "Search", "applySearchFilters",
     "NewPublishImageAction", "NewPublishVideoAction", "uploadImages",
     "uploadVideo", "submitPublishVideo"}

WaitOf(c) ==
    CASE c \in {"NewFeedsListAction", "UserProfile", "Search", "applySearchFilters"}
           -> "waitForInitialState"
      [] c \in {"NewPublishImageAction", "NewPublishVideoAction"} -> "waitPublishEditorReady"
      [] c = "uploadImages" -> "waitForUploadComplete"
      [] OTHER -> "waitForPublishButtonClickable"

\* Whether the page handed to the wait was derived with page.Context(ctx) from
\* the caller's context. The New...Action constructors take no context: their
\* page only has page.Timeout.
PageCarriesCallerCtx(c) ==
    c \notin {"NewFeedsListAction", "NewPublishImageAction", "NewPublishVideoAction"}

\* What one page.Evaluate of the predicate can give in waitForInitialState:
\*   "canceled"  err == context.Canceled
\*   "err"       any other error
\*   "nil"       a nil result or a null value
\*   "false", "true"  the value's Bool()
EvalOutcomes(c) ==
    IF wCancelled /\ PageCarriesCallerCtx(c)
    THEN {"canceled"}
    ELSE {"err", "nil", "false", "true"}

\* What the loop body of waitForInitialState does with one evaluation.
pollVerdictNoReturn(out) ==
    CASE out = "canceled" -> "Canceled"
      [] OTHER -> "continue"

pollVerdictErrAborts(out) ==
    CASE out \in {"canceled", "err"} -> "Canceled"
      [] out = "true" -> "ok"
      [] OTHER -> "continue"

pollVerdict(out) ==
    CASE out = "canceled" -> "Canceled"
      [] out = "err" -> "continue"
      [] out = "nil" -> "continue"
      [] out = "true" -> "ok"
      [] OTHER -> "continue"

\* A caller enters its wait.
StartWait(c) ==
    /\ wpc = "idle"
    /\ wCaller' = c
    /\ wpc' = "waiting"
    /\ UNCHANGED <<wNow, wPolls, wResult, wCancelled, wPollsAfter>>
    /\ UNCHANGED svcVars
    /\ UNCHANGED pureVars
    /\ UNCHANGED sharedVars

\* The caller of the operation cancels its context while the wait runs.
CancelWait ==
    /\ wpc = "waiting"
    /\ ~wCancelled
    /\ wCancelled' = TRUE
    /\ UNCHANGED <<wCaller, wpc, wNow, wPolls, wResult, wPollsAfter>>
    /\ UNCHANGED svcVars
    /\ UNCHANGED pureVars
    /\ UNCHANGED sharedVars

\* waitForInitialState, `case <-ticker.C`: the tick after wNow comes no later
\* than the deadline of the wait's own context.
waitForInitialStateTick ==
    /\ wpc = "waiting"
    /\ WaitOf(wCaller) = "waitForInitialState"
    /\ wNow + 1 <= WaitWindowTicks
    /\ wNow' = wNow + 1
    /\ \E out \in EvalOutcomes(wCaller) :
          /\ wPolls' = Append(wPolls, out)
          /\ IF pollVerdict(out) = "continue"
             THEN UNCHANGED <<wpc, wResult>>
             ELSE wpc' = "done" /\ wResult' = pollVerdict(out)
    /\ wPollsAfter' = IF wCancelled THEN wPollsAfter + 1 ELSE wPollsAfter
    /\ UNCHANGED <<wCaller, wCancelled>>
    /\ UNCHANGED svcVars
    /\ UNCHANGED pureVars
    /\ UNCHANGED sharedVars

\* waitForInitialState, `case <-ctx.Done()`: the deadline comes no later than
\* the next tick (when both are ready, select takes either).
waitForInitialStateDone ==
    /\ wpc = "waiting"
    /\ WaitOf(wCaller) = "waitForInitialState"
    /\ wNow + 1 >= WaitWindowTicks
    /\ wNow' = WaitWindowTicks
    /\ wpc' = "done"
    /\ wResult' = "TimedOut"
    /\ UNCHANGED <<wCaller, wPolls, wCancelled, wPollsAfter>>
    /\ UNCHANGED svcVars
    /\ UNCHANGED pureVars
    /\ UNCHANGED sharedVars

\* What one poll of the publish waits can give: the element query fails, the
\* element (or the preview count) is not there yet, or it is.
PollOutcomes(c) ==
    IF wCancelled /\ PageCarriesCallerCtx(c)
    THEN {"err"}
    ELSE {"err", "notyet", "ready"}

\* waitPublishEditorReady, waitForUploadComplete, waitForPublishButtonClickable:
\* `for time.Since(start) < maxWait { poll; if ready { return nil }; Sleep }`.
publishWaitPoll ==
    /\ wpc = "waiting"
    /\ WaitOf(wCaller) # "waitForInitialState"
    /\ wNow < WaitWindowTicks
    /\ \E out \in PollOutcomes(wCaller) :
          /\ wPolls' = Append(wPolls, out)
          /\ IF out = "ready"
             THEN wpc' = "done" /\ wResult' = "ok" /\ UNCHANGED wNow
             ELSE wNow' = wNow + 1 /\ UNCHANGED <<wpc, wResult>>
    /\ wPollsAfter' = IF wCancelled THEN wPollsAfter + 1 ELSE wPollsAfter
    /\ UNCHANGED <<wCaller, wCancelled>>
    /\ UNCHANGED svcVars
    /\ UNCHANGED pureVars
    /\ UNCHANGED sharedVars

\* The loop condition fails: the wait returns its own timeout error.
publishWaitTimeout ==
    /\ wpc = "waiting"
    /\ WaitOf(wCaller) # "waitForInitialState"
    /\ wNow >= WaitWindowTicks
    /\ wpc' = "done"
    /\ wResult' = "TimedOut"
    /\ UNCHANGED <<wCaller, wNow, wPolls, wCancelled, wPollsAfter>>
    /\ UNCHANGED svcVars
    /\ UNCHANGED pureVars
    /\ UNCHANGED sharedVars

NextWait ==
    \/ \E c \in WaitCallers : StartWait(c)
    \/ CancelWait
    \/ waitForInitialStateTick
    \/ waitForInitialStateDone
    \/ publishWaitPoll
    \/ publishWaitTimeout

SpecWait == Init /\ [][NextWait]_vars

\* The goroutine that runs a wait keeps running: its ticker keeps ticking and
\* its deadline timer fires.
SpecWaitFair == SpecWait /\ WF_vars(NextWait)

\* ================================================================ claims

\* The call has left the body of its service function.
Left == pc \in {"unwind", "returned"}

InteractCall == flow \in InteractFlows

\* The state the flow's field had in the i-th read of this call.
ReadField(i) == FieldOf(flow, reads[i])

OkClicks == {i \in 1..Len(clickLog) : clickLog[i].res = "ok"}

\* C1: for like, unlike, favorite and unfavorite, when the first read of the
\* embedded state succeeds: if it equals the target the call makes no click
\* and returns success; if it differs the call makes at least one click
\* attempt (and if the call then returns success, a click went through).
C1_NoOpAtTargetElseClick ==
    (InteractCall /\ Left /\ Len(reads) >= 1 /\ reads[1].ok) =>
        IF ReadField(1) = TargetOf(flow)
        THEN clickLog = <<>> /\ exitHow = "ok" /\ Len(reads) = 1
        ELSE /\ Len(clickLog) >= 1
             /\ exitHow = "ok" => OkClicks # {}

\* An unlike on a feed read as not liked returned success without a click.
C1_Witness ==
    /\ flow = "unlike" /\ pc = "returned" /\ result = "ok"
    /\ Len(reads) = 1 /\ reads[1].ok /\ ~reads[1].liked
    /\ clickLog = <<>>

\* C2: in every execution of a like, unlike, favorite or unfavorite call the
\* toggle control is clicked at most two times, whatever the reads give.
C2_AtMostTwoClicks == Len(clickLog) <= 2

\* A call that clicked twice and read a state that still differs.
C2_Witness ==
    /\ InteractCall /\ pc = "returned"
    /\ Len(clickLog) = 2 /\ OkClicks = {1, 2}
    /\ Len(reads) = 3 /\ reads[3].ok /\ ReadField(3) # TargetOf(flow)

\* C3: a like whose first read reports liked=false clicks exactly once and
\* returns success when the read after the first click reports liked=true; and
\* for every interact call a second click happens only if the read after the
\* first click succeeded and reported a state different from the target.
C3_SecondClickOnlyAfterMismatch ==
    /\ (flow = "like" /\ Left /\ Len(reads) >= 2
          /\ reads[1].ok /\ ~reads[1].liked /\ reads[2].ok /\ reads[2].liked)
       => (Len(clickLog) = 1 /\ exitHow = "ok" /\ Len(reads) = 2)
    /\ (InteractCall /\ Len(clickLog) >= 2)
       => (Len(reads) >= 2 /\ reads[2].ok /\ ReadField(2) # TargetOf(flow)
             /\ clickLog[1].res = "ok")

\* The like of the end-to-end scenario: one click, then liked=true is read.
C3_Witness ==
    /\ flow = "like" /\ pc = "returned" /\ result = "ok"
    /\ Len(reads) = 2 /\ reads[1].ok /\ ~reads[1].liked
    /\ reads[2].ok /\ reads[2].liked
    /\ Len(clickLog) = 1 /\ clickLog[1].res = "ok"

\* C4: whenever an interact call reports success and its last read of the state
\* succeeded, the state it last read equals the target.
C4_SuccessMeansTargetRead ==
    (InteractCall /\ pc = "returned" /\ result = "ok"
       /\ reads # <<>> /\ reads[Len(reads)].ok)
    => ReadField(Len(reads)) = TargetOf(flow)

\* C5: every service flow that got a browser and a page has released both when
\* it returns, on a normal return, an error return, a cancellation and a panic
\* of a page operation; nothing is left deferred.
C5_ReleasedOnReturn ==
    (flow \in ServiceFlows /\ pc = "returned")
    => (browser # "open" /\ page # "open" /\ deferStack = <<>>)

\* A service flow that had its page open and left by a panic.
C5_Witness ==
    /\ flow \in ServiceFlows /\ pc = "returned" /\ result = "panic"
    /\ browser = "closed" /\ page = "closed"

\* The detached wait of GetLoginQrcode has ended.
BgEnded == flow = "getLoginQrcode" /\ bgpc \in {"unwind", "done"}

\* C6 as stated: once the detached wait has ended with authentication
\* completed, the cookie bundle of this call is the persisted one.
C6_PersistedWheneverAuthenticated ==
    (BgEnded /\ authSeen) => cookieFile = callNo

\* C6 as amended: the detached wait polls at most LoginWaitTicks times; when it
\* saw authentication, saveCookies has run, with page and browser still open,
\* before any of them is closed, and the bundle is persisted unless saveCookies
\* failed; when the wait timed out or failed, saveCookies never runs and the
\* bundle is not written; either way page and browser end closed.
C6_SaveBeforeRelease ==
    /\ bgTime <= LoginWaitTicks
    /\ (flow = "getLoginQrcode" /\ bgpc \in {"wait", "save"})
       => (browser = "open" /\ page = "open")
    /\ (BgEnded /\ authSeen)
       => (saveOut # "none" /\ (saveOut = "ok" <=> cookieFile = callNo))
    /\ (BgEnded /\ ~authSeen) => (saveOut = "none" /\ cookieFile # callNo)
    /\ (flow = "getLoginQrcode" /\ bgpc = "done")
       => (browser = "closed" /\ page = "closed")

\* The wait saw the login, the cookies were saved, then everything was closed.
C6_Witness ==
    /\ flow = "getLoginQrcode" /\ bgpc = "done" /\ authSeen
    /\ saveOut = "ok" /\ cookieFile = callNo
    /\ browser = "closed" /\ page = "closed"

\* C7: the cookie bundle is written only by a login flow that has seen
\* authentication succeed: by the goroutine of GetLoginQrcode after WaitForLogin
\* returned true, or by the login program after Login returned nil. No other
\* flow and no failed or timed-out login writes it.
C7_CookiesWrittenOnlyAfterLogin ==
    [][cookieFile' # cookieFile
         => /\ authSeen
            /\ \/ flow = "getLoginQrcode" /\ bgpc = "save"
               \/ flow = "login" /\ pc = "saveCookies"]_vars

\* A second call, not a login, runs over a bundle that a login wrote.
C7_Witness ==
    /\ cookieFile = 1 /\ callNo = 2 /\ flow \in ServiceFlows /\ pc = "returned"

\* The wait under study is waitForInitialState.
InitialStateWait == WaitOf(wCaller) = "waitForInitialState" /\ wpc # "idle"

TruthyPolls == {i \in 1..Len(wPolls) : wPolls[i] = "true"}

\* What C8 says of each state of a waitForInitialState.
C8_EachState ==
    InitialStateWait =>
        /\ Len(wPolls) <= WaitWindowTicks
        /\ (wpc = "done" /\ TruthyPolls = {} /\ wResult # "Canceled")
           => (wResult = "TimedOut" /\ wNow = WaitWindowTicks)
        /\ \A i \in TruthyPolls :
              i = Len(wPolls) /\ wpc = "done" /\ wResult = "ok" /\ wNow = i
        /\ wResult = "ok" => TruthyPolls # {}

\* C8: waitForInitialState always returns; it returns TimedOut when no poll
\* within the window evaluated truthy (and none was cancelled); it returns ok
\* at the first poll that evaluates truthy, at that poll's tick, and polls no
\* more.
C8_TimedOutOrFirstTruthy ==
    /\ []C8_EachState
    /\ (InitialStateWait ~> (wpc = "done"))

\* The predicate was false at the first poll and truthy at the second, before
\* the window was over.
C8_Witness ==
    /\ InitialStateWait /\ wpc = "done" /\ wResult = "ok"
    /\ wPolls = <<"false", "true">> /\ wNow < WaitWindowTicks

NotYetPolls == {i \in 1..Len(wPolls) : wPolls[i] \in {"err", "nil", "false"}}

\* C9: in waitForInitialState an evaluation error, a nil result and a false
\* result are "not yet": none ends the wait or becomes its result; the wait
\* ends only by a truthy poll, by the deadline, or by the evaluation error
\* context.Canceled.
C9_ErrorsAreNotYet ==
    InitialStateWait =>
        /\ wResult \in {"none", "ok", "TimedOut", "Canceled"}
        /\ \A i \in NotYetPolls :
              (i = Len(wPolls) /\ wpc = "done") => wResult = "TimedOut"
        /\ wResult = "Canceled" => wPolls[Len(wPolls)] = "canceled"
        /\ wResult = "ok" => wPolls[Len(wPolls)] = "true"

\* An evaluation error, then a nil result, then a truthy one: the wait is ok.
C9_Witness ==
    /\ InitialStateWait /\ wpc = "done" /\ wResult = "ok"
    /\ wPolls = <<"err", "nil", "true">>

\* C10: every blocking wait observes the caller's cancellation: once the
\* caller has cancelled, the wait does not go on polling; the one poll that can
\* follow the cancellation is the one that sees it.
C10_WaitsObserveCancellation == wPollsAfter <= 1

\* ------------------------------------------------ the paths of an account

\* A path is the sequence of its elements; an element is a string, and the
\* fixed names (data, accounts, meta.json, ...) are one-character strings here.
\* The accounts root: filepath.Join(baseDir, dataDirName).
accountsRootPath == << <<"data">>, <<"accounts">> >>

\* The elements of a name, split at the separator.
RECURSIVE SplitSlash(_, _)
SplitSlash(cur, s) ==
    IF s = <<>> THEN <<cur>>
    ELSE IF Head(s) = "/" THEN <<cur>> \o SplitSlash(<<>>, Tail(s))
    ELSE SplitSlash(Append(cur, Head(s)), Tail(s))

\* filepath.Clean on elements: empty and "." elements go, ".." takes the
\* element before it away.
RECURSIVE CleanSegs(_, _)
CleanSegs(done, rest) ==
    IF rest = <<>> THEN done
    ELSE IF Head(rest) \in {<<>>, <<".">>} THEN CleanSegs(done, Tail(rest))
    ELSE IF Head(rest) = <<".", ".">>
         THEN CleanSegs(IF done = <<>> THEN <<>> ELSE SubSeq(done, 1, Len(done) - 1),
                        Tail(rest))
    ELSE CleanSegs(Append(done, Head(rest)), Tail(rest))

\* filepath.Join(dir, name).
filepathJoin(dir, name) == CleanSegs(<<>>, dir \o SplitSlash(<<>>, name))

\* accountDir: filepath.Join(root, id).
accountDirPath(id) == filepathJoin(accountsRootPath, id)

\* metaPath, CookiesPath, ImagesDir: filepath.Join(dir, the fixed name).
metaFilePath(id) == filepathJoin(accountDirPath(id), <<"meta.json">>)

cookiesFilePath(id) == filepathJoin(accountDirPath(id), <<"cookies.json">>)

imagesDirPath(id) == filepathJoin(accountDirPath(id), <<"images">>)

\* The operations that take an account identifier and touch its files.
IsoOps ==
    {"CookiesPath", "ImagesDir", "EnsureAccount", "SetAccountRemark", "saveCookies",
     "processImages"}

\* The directories an operation makes for the account (os.MkdirAll).
dirsMade(op, id) ==
    IF op \in {"CookiesPath", "saveCookies"}
    THEN {accountDirPath(id)}
    ELSE {accountDirPath(id), imagesDirPath(id)}

\* The files an operation writes for the account: meta.json by ensureMeta and
\* SetAccountRemark, cookies.json by saveCookies, the downloaded images by
\* processImages.
filesWritten(op, id) ==
    CASE op \in {"EnsureAccount", "SetAccountRemark"} -> {metaFilePath(id)}
      [] op = "saveCookies" -> {cookiesFilePath(id)}
      [] op = "processImages" -> {Append(imagesDirPath(id), <<"img">>)}
      [] OTHER -> {}

\* The raw identifiers these operations are called with.
IsoRawIDs ==
    {<<>>, <<"e">>, <<" ", "e">>, <<"7">>, <<"e", "/">>, <<"e", "/", "7">>,
     <<".", ".">>, <<"e", ".">>}

IsoFrame ==
    /\ UNCHANGED svcVars
    /\ UNCHANGED waitVars
    /\ UNCHANGED sharedVars
    /\ UNCHANGED <<rawID, resolved, lastOp, storeOps, sfArgs, sfOut, sessArgs, sessOut,
                   raceCalls, raceFile, pub, srch, hcall, mrace>>

\* One operation on the account named raw: the identifier is sanitized first
\* and a refused one touches nothing; else the account's directories are made
\* if they are not there and its files are written anew.
isoCall(op, raw) ==
    /\ iso.ops < MaxStoreOps
    /\ LET r == sanitizeAccountID(raw)
           n == iso.ops + 1
       IN  iso' =
             IF ~r.ok
             THEN [iso EXCEPT !.ops = n,
                              !.last = [op |-> op, ok |-> FALSE, id |-> <<>>,
                                        touched |-> {}]]
             ELSE [dirs |-> iso.dirs \cup {accountsRootPath} \cup dirsMade(op, r.id),
                   files |-> {f \in iso.files : f.path \notin filesWritten(op, r.id)}
                               \cup {[path |-> q, stamp |-> n] : q \in filesWritten(op, r.id)},
                   ops |-> n,
                   last |-> [op |-> op, ok |-> TRUE, id |-> r.id,
                             touched |-> dirsMade(op, r.id) \cup filesWritten(op, r.id)]]
    /\ IsoFrame

NextIsolation == \E op \in IsoOps, raw \in IsoRawIDs : isoCall(op, raw)

SpecIsolation == Init /\ [][NextIsolation]_vars

\* -------------------------------- one account's metadata, calls together

\* The calls are on the default account, the one ListAccounts makes by
\* itself; every os call is one step. What a call still has to do:
\*   "mkdir"    accountDir's MkdirAll (CookiesPath, ImagesDir of EnsureAccount)
\*   "read"     ensureMeta: metaPath, os.ReadFile
\*   "save"     ensureMeta: saveAccountMeta of the default or normalized record
\*   "readDir"  ListAccounts: os.ReadDir(root)
\*   "stat"     ListAccounts: os.Stat of the default account's directory
\*   "set"      SetAccountRemark: time.Now, the remark, saveAccountMeta
ensureMetaSteps == <<"read", "save">>

EnsureAccountSteps == <<"mkdir">> \o ensureMetaSteps

MetaOps == {"EnsureAccount", "ListAccounts", "SetAccountRemark"}

MetaRemarks == {<<"a">>, <<"Z", " ">>}

\* What a call begins with.
FirstSteps(op) ==
    CASE op = "EnsureAccount" -> EnsureAccountSteps
      [] op = "ListAccounts" -> <<"readDir">>
      [] OTHER -> EnsureAccountSteps \o ensureMetaSteps \o <<"set">>

\* SetAccountRemark that never stamps UpdatedAt.
withRemarkNoStamp(meta, remark, now) ==
    [remark |-> TrimSpace(remark),
     createdAt |-> IF meta.createdAt = ZeroTime THEN now ELSE meta.createdAt,
     updatedAt |-> ZeroTime]

\* SetAccountRemark after ensureMeta: `now := time.Now()`, CreatedAt set if
\* zero, the trimmed remark, UpdatedAt = now.
withRemark(meta, remark, now) ==
    [remark |-> TrimSpace(remark),
     createdAt |-> IF meta.createdAt = ZeroTime THEN now ELSE meta.createdAt,
     updatedAt |-> now]

\* The record ensureMeta saves for what it read: the default record for no
\* file, the normalized record for a file.
ensureMetaRecord(read, now) ==
    IF ~read.exists THEN defaultAccountMeta(now)
    ELSE normalizeAccountMeta(read.meta, now)

MetaFrame ==
    /\ UNCHANGED svcVars
    /\ UNCHANGED waitVars
    /\ UNCHANGED sharedVars
    /\ UNCHANGED <<rawID, resolved, lastOp, storeOps, sfArgs, sfOut, sessArgs, sessOut,
                   raceCalls, raceFile, pub, iso, srch, hcall>>

\* Caller c begins a call.
metaStart(c, op, remark) ==
    /\ mrace.calls[c].op = "none"
    /\ mrace.started < MaxMetaCalls
    /\ mrace' = [mrace EXCEPT
                   !.started = @ + 1,
                   !.calls[c] = [op |-> op, todo |-> FirstSteps(op),
                                 remark |-> IF op = "SetAccountRemark" THEN remark ELSE <<>>,
                                 local |-> NoMetaFile]]
    /\ MetaFrame

\* The next os call of caller c, dt after the latest reading of the clock:
\* two readings of time.Now may be the same instant.
metaStep(c, dt) ==
    /\ mrace.calls[c].todo # <<>>
    /\ LET me == mrace.calls[c]
           step == Head(me.todo)
           rest == Tail(me.todo)
           now == mrace.clock + dt
           rec == IF step = "set" THEN withRemark(me.local.meta, me.remark, now)
                  ELSE ensureMetaRecord(me.local, now)
       IN  mrace' =
             CASE step = "mkdir" ->
                    [mrace EXCEPT !.dir = TRUE, !.calls[c].todo = rest]
               [] step = "read" ->
                    [mrace EXCEPT !.dir = TRUE, !.calls[c].todo = rest,
                                  !.calls[c].local = mrace.file]
               [] step = "save" ->
                    [mrace EXCEPT !.clock = now, !.calls[c].todo = rest,
                                  !.file = [exists |-> TRUE, meta |-> rec],
                                  !.calls[c].local = [exists |-> TRUE, meta |-> rec]]
               [] step = "readDir" ->
                    [mrace EXCEPT !.calls[c].todo =
                        (IF mrace.dir THEN ensureMetaSteps ELSE <<>>) \o <<"stat">>]
               [] step = "stat" ->
                    [mrace EXCEPT !.calls[c].todo =
                        IF mrace.dir THEN <<>>
                        ELSE EnsureAccountSteps \o ensureMetaSteps]
               [] OTHER ->
                    [mrace EXCEPT !.clock = now, !.calls[c].todo = rest,
                                  !.file = [exists |-> TRUE, meta |-> rec],
                                  !.last = [set |-> TRUE, remark |-> rec.remark]]
    /\ MetaFrame

\* The call of caller c returns.
metaReturn(c) ==
    /\ mrace.calls[c].op # "none"
    /\ mrace.calls[c].todo = <<>>
    /\ mrace' = [mrace EXCEPT !.calls[c] = IdleMetaCall]
    /\ MetaFrame

NextMetaRace ==
    \/ \E c \in MetaCallers, op \in MetaOps, r \in MetaRemarks : metaStart(c, op, r)
    \/ \E c \in MetaCallers, dt \in {0, 1} : metaStep(c, dt)
    \/ \E c \in MetaCallers : metaReturn(c)

SpecMetaRace == Init /\ [][NextMetaRace]_vars

\* ---------------------------------------------- the handlers' account

\* The HTTP handlers that read account_id from the query string, those that
\* read it from a JSON body and hand it to resolveAccountID, the one that
\* hands it to accounts.SetAccountRemark as it came, and the MCP tool
\* handlers, which all go through accountIDFromArgs.
QueryHandlers ==
    {"checkLoginStatusHandler", "getLoginQrcodeHandler", "listFeedsHandler",
     "searchFeedsHandler"}

BodyHandlers ==
    {"publishHandler", "publishVideoHandler", "getFeedDetailHandler",
     "userProfileHandler", "postCommentHandler"}

DirectHandlers == {"setAccountRemarkHandler"}

McpHandlers ==
    {"handleCheckLoginStatus", "handleGetLoginQrcode", "handlePublishContent",
     "handlePublishVideo", "handleListFeeds", "handleSetAccountRemark",
     "handleLikeFeed", "handleFavoriteFeed", "handleSearchFeeds",
     "handleGetFeedDetail", "handleUserProfile", "handlePostComment"}

Handlers == QueryHandlers \cup BodyHandlers \cup DirectHandlers \cup McpHandlers

\* The answer of a handler as far as the account goes: the error code it
\* answers with, or "accepted" and the account it goes on to work on.
Rejected(code) == [code |-> code, account |-> <<"?">>]

Accepted(id) == [code |-> "accepted", account |-> id]

\* resolveAccountID of handlers_api.go.
resolveAccountID(raw) ==
    LET trimmed == TrimSpace(raw)
    IN  IF trimmed = <<>> THEN Rejected("MISSING_ACCOUNT_ID")
        ELSE IF ~ResolveAccountID(trimmed).ok THEN Rejected("INVALID_ACCOUNT_ID")
        ELSE Accepted(ResolveAccountID(trimmed).id)

\* accountIDFromArgs: args["account_id"] is not there or not a string, is
\* blank, or is handed to accounts.ResolveAccountID.
accountIDFromArgs(present, raw) ==
    IF ~present THEN Rejected("MISSING_ACCOUNT_ID")
    ELSE IF TrimSpace(raw) = <<>> THEN Rejected("MISSING_ACCOUNT_ID")
    ELSE IF ~ResolveAccountID(TrimSpace(raw)).ok THEN Rejected("INVALID_ACCOUNT_ID")
    ELSE Accepted(ResolveAccountID(TrimSpace(raw)).id)

\* c.ShouldBindJSON with `binding:"required"` on AccountID: a field that is
\* not there or is the empty string fails the binding.
bindRequired(present, raw) == present /\ raw # <<>>

\* setAccountRemarkHandler: the bound identifier goes to
\* accounts.SetAccountRemark, whose ResolveAccountID is the only check.
setAccountRemarkHandler(present, raw) ==
    IF ~bindRequired(present, raw) THEN Rejected("INVALID_REQUEST")
    ELSE IF ~ResolveAccountID(raw).ok THEN Rejected("SET_ACCOUNT_REMARK_FAILED")
    ELSE Accepted(ResolveAccountID(raw).id)

\* What each handler answers for the account_id it is given; c.Query gives
\* the empty string for a parameter that is not there.
handlerAccount(h, present, raw) ==
    CASE h \in QueryHandlers -> resolveAccountID(IF present THEN raw ELSE <<>>)
      [] h \in BodyHandlers ->
           IF ~bindRequired(present, raw) THEN Rejected("INVALID_REQUEST")
           ELSE resolveAccountID(raw)
      [] h \in DirectHandlers -> setAccountRemarkHandler(present, raw)
      [] OTHER -> accountIDFromArgs(present, raw)

\* The identifiers the handlers are called with.
HandlerRawIDs ==
    {<<>>, <<" ">>, <<" ", "\n">>, <<"e">>, <<" ", "e">>, <<"Z", "/">>}

HandlerFrame ==
    /\ UNCHANGED svcVars
    /\ UNCHANGED waitVars
    /\ UNCHANGED sharedVars
    /\ UNCHANGED <<rawID, resolved, lastOp, storeOps, sfArgs, sfOut, sessArgs, sessOut,
                   raceCalls, raceFile, pub, iso, srch, mrace>>

\* One request to one handler.
handleRequest(h, present, raw) ==
    /\ hcall.handler = "none"
    /\ hcall' = [handler |-> h, present |-> present,
                 raw |-> IF present THEN raw ELSE <<>>,
                 code |-> handlerAccount(h, present, raw).code,
                 account |-> handlerAccount(h, present, raw).account]
    /\ HandlerFrame

NextHandlers ==
    \E h \in Handlers, present \in BOOLEAN, raw \in HandlerRawIDs :
        handleRequest(h, present, raw)

SpecHandlers == Init /\ [][NextHandlers]_vars

\* ------------------------------------------------------------ the search

\* SearchFilters.isDefault.
isDefault(f) ==
    /\ f.sort = SortDefault
    /\ f.noteType = NoteTypeAll
    /\ f.publishTime = PublishAll
    /\ f.searchScope = ScopeAll
    /\ f.distance = DistanceAll

\* `if filters != nil && !filters.isDefault()`.
FiltersApply(given, f) == given /\ ~isDefault(f)

\* The filters a search is called with: each field its default or another of
\* its values.
SearchFilterChoices ==
    [sort : {SortDefault, "latest"}, noteType : {NoteTypeAll, "video"},
     publishTime : {PublishAll, "week"}, searchScope : {ScopeAll, "followed"},
     distance : {DistanceAll, "nearby"}]

\* The fields in the order of the filter panel, and the default of each.
SearchFilterFields == <<"sort", "noteType", "publishTime", "searchScope", "distance">>

SearchFilterDefaults ==
    [sort |-> SortDefault, noteType |-> NoteTypeAll, publishTime |-> PublishAll,
     searchScope |-> ScopeAll, distance |-> DistanceAll]

\* The tags applySearchFilters clicks, in its order: one per field that is
\* not at its default.
RECURSIVE TagsToClick(_, _)
TagsToClick(f, fields) ==
    IF fields = <<>> THEN <<>>
    ELSE (IF f[Head(fields)] # SearchFilterDefaults[Head(fields)]
          THEN <<Head(fields)>> ELSE <<>>) \o TagsToClick(f, Tail(fields))

\* The readiness predicate, the same JavaScript before and after the filters:
\* state.search.feeds._value.length > 0. The page's feed list is absent
\* ("none"), the list loaded for the keyword alone ("pre"), emptied while the
\* filtered search loads ("empty"), or the filtered list ("post").
feedsReady(feeds) == feeds \in {"pre", "post"}

SearchFrame ==
    /\ UNCHANGED svcVars
    /\ UNCHANGED waitVars
    /\ UNCHANGED sharedVars
    /\ UNCHANGED <<rawID, resolved, lastOp, storeOps, sfArgs, sfOut, sessArgs, sessOut,
                   raceCalls, raceFile, pub, iso, hcall, mrace>>

\* Search is called, with no filters (nil) or with some.
srchStart(given, f) ==
    /\ srch.pc = "idle"
    /\ srch' = [NoSearch EXCEPT !.pc = "navigate", !.given = given,
                                !.filters = IF given THEN f ELSE NoArgs]
    /\ SearchFrame

\* page.Navigate(searchURL).
srchNavigate ==
    /\ srch.pc = "navigate"
    /\ \E good \in BOOLEAN :
          srch' = IF good THEN [srch EXCEPT !.pc = "wait1"]
                  ELSE [srch EXCEPT !.pc = "returned", !.result = "err"]
    /\ SearchFrame

\* The page, on its own time: it loads the feed list for the keyword after
\* the navigation, and after the filter selection was confirmed it loads the
\* filtered list, with or without emptying the list first.
srchPageLoads ==
    /\ srch.pc \notin {"idle", "navigate", "returned"}
    /\ \E to \in {"pre", "empty", "post"} :
          /\ \/ srch.feeds = "none" /\ to = "pre"
             \/ srch.applied /\ srch.feeds = "pre" /\ to \in {"empty", "post"}
             \/ srch.applied /\ srch.feeds = "empty" /\ to = "post"
          /\ srch' = [srch EXCEPT !.feeds = to]
    /\ SearchFrame

\* Where Search goes on after a wait returned nil.
afterWait(at, given, f) ==
    IF at = "wait1" /\ FiltersApply(given, f) THEN "apply" ELSE "evaluate"

\* One tick of waitForInitialState, in Search (wait1) or at the end of
\* applySearchFilters (wait2): the evaluation fails, gives nil, or gives the
\* predicate's value.
srchWaitTick ==
    /\ srch.pc \in {"wait1", "wait2"}
    /\ srch.now < WaitWindowTicks
    /\ \E e \in {"err", "nil", "value"} :
          LET out == IF e # "value" THEN e
                     ELSE IF feedsReady(srch.feeds) THEN "true" ELSE "false"
          IN  srch' = IF pollVerdict(out) = "ok"
                      THEN [srch EXCEPT !.pc = afterWait(srch.pc, srch.given, srch.filters),
                                        !.now = 0]
                      ELSE [srch EXCEPT !.now = @ + 1]
    /\ SearchFrame

\* `case <-ctx.Done(): return ctx.Err()`.
srchWaitTimeout ==
    /\ srch.pc \in {"wait1", "wait2"}
    /\ srch.now >= WaitWindowTicks
    /\ srch' = [srch EXCEPT !.pc = "returned", !.result = "err"]
    /\ SearchFrame

\* applySearchFilters up to the click that confirms the selection: the panel
\* is opened, a tag is clicked for every field not at its default, the
\* selection is confirmed. A tag that is not found is an error; the Must*
\* calls panic.
srchApplyFilters ==
    /\ srch.pc = "apply"
    /\ \E out \in {"ok", "tagNotFound", "panic"} :
          srch' = CASE out = "ok" ->
                         [srch EXCEPT !.pc = "wait2", !.applied = TRUE,
                                      !.tags = TagsToClick(srch.filters, SearchFilterFields)]
                    [] out = "tagNotFound" ->
                         [srch EXCEPT !.pc = "returned", !.result = "err"]
                    [] OTHER -> [srch EXCEPT !.pc = "returned", !.result = "panic"]
    /\ SearchFrame

\* The final page.Evaluate of window.__INITIAL_STATE__ and its decoding:
\* Search returns the feed list that is on the page now.
srchEvaluate ==
    /\ srch.pc = "evaluate"
    /\ \E good \in BOOLEAN :
          srch' = IF good
                  THEN [srch EXCEPT !.pc = "returned", !.result = "ok",
                                    !.returned = srch.feeds]
                  ELSE [srch EXCEPT !.pc = "returned", !.result = "err"]
    /\ SearchFrame

NextSearch ==
    \/ \E given \in BOOLEAN, f \in SearchFilterChoices : srchStart(given, f)
    \/ srchNavigate
    \/ srchPageLoads
    \/ srchWaitTick
    \/ srchWaitTimeout
    \/ srchApplyFilters
    \/ srchEvaluate

SpecSearch == Init /\ [][NextSearch]_vars

\* ------------------------------------------------- the publish pipelines

\* NewPublishImageAction then PublishAction.Publish, and NewPublishVideoAction
\* then PublishAction.PublishVideo, statement by statement. pub.log lists the
\* steps that were done, pub.polls what each poll of the upload wait saw,
\* pub.clicks how each click on the submit control ended.
PublishKinds == {"image", "video"}

\* The statement that follows a statement that succeeded: the constructor
\* navigates, waits for the editor and selects the tab; Publish / PublishVideo
\* checks the files, uploads (set the files, wait for the upload) and submits
\* (title, body, tags, the submit control, the click, the fixed sleep).
pubNext(kind, at) ==
    CASE at = "navigate" -> "editorReady"
      [] at = "editorReady" -> "tab"
      [] at = "tab" -> "checkFiles"
      [] at = "checkFiles" -> "setFiles"
      [] at = "setFiles" -> "uploadWait"
      [] at = "uploadWait" -> "title"
      [] at = "title" -> "body"
      [] at = "body" -> "tags"
      [] at = "tags" -> "control"
      [] at = "control" -> "click"
      [] at = "click" -> "settle"

\* The step `at` is done: it is logged and the next statement is reached.
pubDone(at) ==
    [pub EXCEPT !.log = Append(@, at), !.pc = pubNext(pub.kind, at)]

\* The function returns an error, or a Must* call panics.
pubFail(how) == [pub EXCEPT !.pc = "returned", !.result = how]

PubFrame ==
    /\ UNCHANGED svcVars
    /\ UNCHANGED waitVars
    /\ UNCHANGED sharedVars
    /\ UNCHANGED <<rawID, resolved, lastOp, storeOps, sfArgs, sfOut, sessArgs, sessOut,
                   raceCalls, raceFile, iso, srch, hcall, mrace>>

\* publishContent / publishVideo reach the constructor with n files.
pubStart(kind, n) ==
    /\ pub.pc = "idle"
    /\ pub' = [NoPub EXCEPT !.kind = kind, !.files = n, !.pc = "navigate"]
    /\ PubFrame

\* pp.MustNavigate(urlOfPublic) panics when the navigation fails.
pubNavigate ==
    /\ pub.pc = "navigate"
    /\ \E good \in BOOLEAN :
          pub' = IF good THEN [pub EXCEPT !.pc = pubNext(pub.kind, "navigate")]
                 ELSE pubFail("panic")
    /\ PubFrame

\* waitPublishEditorReady: nil, or its timeout error.
pubEditorReady ==
    /\ pub.pc = "editorReady"
    /\ \E good \in BOOLEAN :
          pub' = IF good THEN pubDone("editorReady") ELSE pubFail("err")
    /\ PubFrame

\* clickPublishTab: nil after the click on the tab, or an error.
pubTab ==
    /\ pub.pc = "tab"
    /\ \E good \in BOOLEAN :
          pub' = IF good THEN pubDone("tab") ELSE pubFail("err")
    /\ PubFrame

\* `if len(content.ImagePaths) == 0` / `strings.TrimSpace(VideoPath) == ""`.
pubCheckFiles ==
    /\ pub.pc = "checkFiles"
    /\ pub' = IF pub.files = 0 THEN pubFail("err")
              ELSE [pub EXCEPT !.pc = pubNext(pub.kind, "checkFiles")]
    /\ PubFrame

\* uploadImages / uploadVideo up to SetFiles: os.Stat of the paths, the
\* upload input, SetFiles; each can return an error.
pubSetFiles ==
    /\ pub.pc = "setFiles"
    /\ \E out \in {"ok", "statErr", "noInput", "setErr"} :
          pub' = IF out = "ok" THEN pubDone("setFiles") ELSE pubFail("err")
    /\ PubFrame

\* What one poll of the upload wait sees: -1 for a failed query; for images
\* the number of preview elements, for a video 1 when the publish button is
\* there, visible and not disabled, else 0.
PollCounts(kind) == IF kind = "image" THEN -1..MaxFiles ELSE {-1, 0, 1}

\* The upload wait taking any preview for completion.
uploadCompleteAnyPreview(count, expected) == count >= 1

\* `if err == nil { if currentCount >= expectedCount { return nil } }`.
uploadComplete(count, expected) == count >= 0 /\ count >= expected

\* One pass of `for time.Since(start) < maxWaitTime { ...; time.Sleep(...) }`
\* in waitForUploadComplete (waitForPublishButtonClickable for a video).
pubUploadPoll ==
    /\ pub.pc = "uploadWait"
    /\ pub.now < WaitWindowTicks
    /\ \E c \in PollCounts(pub.kind) :
          pub' = IF uploadComplete(c, pub.files)
                 THEN [pubDone("uploadWait") EXCEPT !.polls = Append(pub.polls, c)]
                 ELSE [pub EXCEPT !.polls = Append(@, c), !.now = @ + 1]
    /\ PubFrame

\* The loop condition fails: the wait returns its timeout error.
pubUploadTimeout ==
    /\ pub.pc = "uploadWait"
    /\ pub.now >= WaitWindowTicks
    /\ pub' = pubFail("err")
    /\ PubFrame

\* The title input: page.Element, titleElem.Input.
pubTitle ==
    /\ pub.pc = "title"
    /\ \E out \in {"ok", "noElem", "inputErr"} :
          pub' = IF out = "ok" THEN pubDone("title") ELSE pubFail("err")
    /\ PubFrame

\* The body: getContentElement (its MustDo panics), contentElem.Input.
pubBody ==
    /\ pub.pc = "body"
    /\ \E out \in {"ok", "noElem", "inputErr", "panic"} :
          pub' = CASE out = "ok" -> pubDone("body")
                   [] out = "panic" -> pubFail("panic")
                   [] OTHER -> pubFail("err")
    /\ PubFrame

\* inputTags returns nothing; its Must* calls panic when they fail.
pubTags ==
    /\ pub.pc = "tags"
    /\ \E good \in BOOLEAN :
          pub' = IF good THEN pubDone("tags") ELSE pubFail("panic")
    /\ PubFrame

\* The submit control: page.Element("div.submit div.d-button-content") for
\* images, waitForPublishButtonClickable for a video.
pubControl ==
    /\ pub.pc = "control"
    /\ \E good \in BOOLEAN :
          pub' = IF good THEN pubDone("control") ELSE pubFail("err")
    /\ PubFrame

\* A failed click tried again.
afterClickRetries(res) == IF res = "ok" THEN "settle" ELSE "click"

\* `if err := submitButton.Click(...); err != nil { return errors.Wrap(...) }`.
afterClick(res) == IF res = "ok" THEN "settle" ELSE "returned"

\* The one click on the submit control.
pubClick ==
    /\ pub.pc = "click"
    /\ \E res \in {"ok", "err"} :
          pub' = [pub EXCEPT !.clicks = Append(@, res),
                             !.log = IF res = "ok" THEN Append(@, "click") ELSE @,
                             !.pc = afterClick(res),
                             !.result = IF afterClick(res) = "returned" THEN "err" ELSE @]
    /\ PubFrame

\* time.Sleep(3 * time.Second); return nil.
pubSettle ==
    /\ pub.pc = "settle"
    /\ pub' = [pub EXCEPT !.pc = "returned", !.result = "ok"]
    /\ PubFrame

NextPublish ==
    \/ \E kind \in PublishKinds, n \in 0..MaxFiles :
          pubStart(kind, IF kind = "video" /\ n > 1 THEN 1 ELSE n)
    \/ pubNavigate
    \/ pubEditorReady
    \/ pubTab
    \/ pubCheckFiles
    \/ pubSetFiles
    \/ pubUploadPoll
    \/ pubUploadTimeout
    \/ pubTitle
    \/ pubBody
    \/ pubTags
    \/ pubControl
    \/ pubClick
    \/ pubSettle

SpecPublish == Init /\ [][NextPublish]_vars

\* The goroutine of the publish call keeps running: its sleeps end and its
\* page operations return.
SpecPublishFair == SpecPublish /\ WF_vars(NextPublish)

\* ------------------------------------------------ claims on the accounts

AllSpace(s) == \A i \in 1..Len(s) : s[i] \in SpaceChars

\* The part of a string between its leading and its trailing whitespace.
Middles(s) ==
    {SubSeq(s, i, j) : <<i, j>> \in
        {p \in (1..Len(s)) \X (1..Len(s)) :
            /\ p[1] <= p[2]
            /\ s[p[1]] \notin SpaceChars
            /\ s[p[2]] \notin SpaceChars
            /\ \A k \in 1..(p[1] - 1) : s[k] \in SpaceChars
            /\ \A k \in (p[2] + 1)..Len(s) : s[k] \in SpaceChars}}

\* C11 as stated: an identifier that matches is returned unchanged, empty or
\* whitespace-only input gives the default identifier, and every other input,
\* a valid identifier surrounded by whitespace included, fails.
C11_ResolveAsStated ==
    resolved # NoResult =>
        IF accountIDPattern(rawID) THEN resolved = [ok |-> TRUE, id |-> rawID]
        ELSE IF AllSpace(rawID) THEN resolved = [ok |-> TRUE, id |-> defaultAccountID]
        ELSE ~resolved.ok

\* C11 as the code has it: the input is taken without its leading and
\* trailing whitespace; nothing left gives the default identifier, a match of
\* what is left gives exactly that, anything else fails.
C11_ResolveTrimmed ==
    resolved # NoResult =>
        IF AllSpace(rawID) THEN resolved = [ok |-> TRUE, id |-> defaultAccountID]
        ELSE \A m \in Middles(rawID) :
                IF accountIDPattern(m)
                THEN resolved = [ok |-> TRUE, id |-> m]
                ELSE ~resolved.ok

\* A valid identifier surrounded by whitespace was resolved.
C11_Witness ==
    /\ resolved # NoResult
    /\ resolved.ok
    /\ ~AllSpace(rawID)
    /\ resolved.id # rawID
    /\ Middles(rawID) = {resolved.id}

\* An identifier ResolveAccountID has an answer for.
Normalizable(raw) ==
    AllSpace(raw) \/ \E m \in Middles(raw) : accountIDPattern(m)

\* The step is one account-store operation, left in lastOp'.
StoreStep == storeOps' = storeOps + 1

\* C12: an operation given an identifier that cannot be normalized fails with
\* InvalidAccountID, and the step creates or writes no directory and no file
\* and launches no browser.
C12_InvalidIdTouchesNothing ==
    [][(StoreStep /\ lastOp'.op # "listAccounts" /\ ~Normalizable(lastOp'.raw))
         => /\ ~lastOp'.ok
            /\ lastOp'.err = "InvalidAccountID"
            /\ lastOp'.ret # "launched"
            /\ store' = store
            /\ clock' = clock]_vars

\* An operation was refused for its identifier when the data root already
\* held accounts.
C12_Witness ==
    /\ lastOp.op \in {"cookiesPath", "imagesDir", "ensureAccount", "setRemark",
                       "newBrowser", "processImages"}
    /\ ~Normalizable(lastOp.raw)
    /\ lastOp.err = "InvalidAccountID"
    /\ store.dirs # {}

\* ------------------------------------------------- claims on the titles

\* The width of a title in units: wide characters count 2, the others 1.
WidthUnits(t) == t.narrow + 2 * t.wide

\* C13: the image-publish title validation accepts a title if and only if its
\* display width is at most 40 units, and refuses the others with TitleTooLong:
\* 40 Latin characters and 20 CJK characters pass, 21 CJK characters fail.
C13_TitleAcceptedIffWidthAtMost40 ==
    titleCheck # "none" =>
        /\ titleCheck = "ok" <=> WidthUnits(title) <= 40
        /\ titleCheck # "ok" => titleCheck = "TitleTooLong"
        /\ title = [narrow |-> 40, wide |-> 0] => titleCheck = "ok"
        /\ title = [narrow |-> 0, wide |-> 20] => titleCheck = "ok"
        /\ title = [narrow |-> 0, wide |-> 21] => titleCheck = "TitleTooLong"

\* The title of 21 CJK characters was refused.
C13_Witness ==
    title = [narrow |-> 0, wide |-> 21] /\ titleCheck = "TitleTooLong"

TooWide(f) == flow = f /\ WidthUnits(title) > 40

\* C14: publish-image with a title wider than 40 units fails with
\* TitleTooLong, and no step of the call resolves or creates an account
\* directory, downloads an image, or creates a browser session or a page.
C14_TooWideTitleFailsFirst ==
    /\ [](TooWide("publishImage") /\ Left
            => titleCheck = "TitleTooLong" /\ exitHow = "err")
    /\ [][(flow' = "publishImage" /\ WidthUnits(title') > 40)
            => /\ store' = store
               /\ browser' = "none"
               /\ page' = "none"
               /\ pc' \notin {"processImages", "newBrowser", "newPage", "action"}]_vars

\* A publish-image call with a title over the limit has returned its error,
\* with accounts already on disk from an earlier call.
C14_Witness ==
    /\ TooWide("publishImage")
    /\ pc = "returned"
    /\ result = "err"
    /\ titleCheck = "TitleTooLong"
    /\ store.dirs # {}

\* C15: publish-video with a title wider than 40 units fails with
\* TitleTooLong before any browser interaction: no session and no page is
\* acquired.
C15_VideoTitleRule ==
    TooWide("publishVideo") =>
        /\ browser = "none"
        /\ page = "none"
        /\ Left => titleCheck = "TitleTooLong" /\ exitHow = "err"

\* ------------------------------------------- claims on the account store

\* The account an operation's identifier resolves to.
AccountOf(raw) == ResolveAccountID(raw).id

\* The step is a call of op that follows a successful call of op for the
\* same account.
Repeated(op) ==
    /\ StoreStep
    /\ lastOp.op = op /\ lastOp.ok
    /\ lastOp'.op = op
    /\ AccountOf(lastOp'.raw) = AccountOf(lastOp.raw)

\* C16: ensureAccount is idempotent: a call that follows an ensureAccount of
\* the same account leaves the account's persisted metadata (remark, createdAt,
\* updatedAt) exactly as that call left it, and so does every further call.
C16_EnsureAccountIdempotent ==
    [][Repeated("ensureAccount")
         => /\ AccountOf(lastOp.raw) \in DOMAIN store.meta
            /\ store'.meta = store.meta
            /\ store'.dirs = store.dirs]_vars

\* ensureAccount succeeded twice in a row for one account.
C16_Witness ==
    /\ lastOp.op = "ensureAccount" /\ lastOp.ok
    /\ lastOp.again
    /\ store.meta[AccountOf(lastOp.raw)].createdAt # ZeroTime

\* The string without its leading and trailing whitespace.
Trimmed(str) == IF AllSpace(str) THEN <<>> ELSE CHOOSE m \in Middles(str) : TRUE

IDs(infos) == [i \in 1..Len(infos) |-> infos[i].id]

C18_WitnessEmpty ==
    /\ lastOp.op = "listAccounts" /\ lastOp.ok
    /\ storeOps = 1

\* ------------------------------------ claims on a QR for a logged-in account

\* GetLoginQrcode found its account already logged in.
AlreadyLoggedIn == flow = "getLoginQrcode" /\ loggedIn

\* C20: getLoginQrcode for an already-authenticated account returns the
\* logged-in fact without waiting: it starts no background wait, no poll of the
\* login state is made, no cookies are written by the call, and its page and
\* browser are closed by the time it has returned.
C20_LoggedInReturnsAtOnce ==
    AlreadyLoggedIn =>
        /\ bgpc = "idle" /\ bgTime = 0 /\ bgDefers = <<>>
        /\ saveOut = "none" /\ cookieFile # callNo
        /\ exitHow = "ok"
        /\ pc = "returned" =>
              /\ result = "ok"
              /\ page = "closed" /\ browser = "closed"

\* Such a call has returned.
C20_Witness ==
    /\ AlreadyLoggedIn
    /\ pc = "returned"
    /\ result = "ok"
    /\ page = "closed" /\ browser = "closed"
    /\ bgpc = "idle"

\* ------------------------------------------- claims on session creation

\* Nothing stands in the way of the account's paths: the identifier can be
\* normalised and no filesystem call fails.
PathsAvailable == Normalizable(sessArgs.raw) /\ sessArgs.failAt = -1

C24_WitnessUnreadable ==
    /\ sessOut.ok /\ sessArgs.file = "unreadable"
    /\ sessOut.session.launched /\ ~sessOut.session.cookies

\* The paths could not be made and no browser was launched.
C24_WitnessRefused ==
    /\ sessOut # NoSession /\ ~sessOut.ok
    /\ sessOut.err = "StorageUnavailable" /\ ~sessOut.session.launched

\* ------------------------------------------- claims on concurrent calls

\* Call i is over and its login went through: it was logged in already, or
\* its QR was scanned and its cookies were saved.
LoginSucceeded(i) ==
    /\ raceCalls[i].pc = "closed"
    /\ raceCalls[i].result = "loggedIn" \/ raceCalls[i].saved

\* C25: two concurrent calls for one account each have a session and a page of
\* their own; the cookie file holds at every moment the bundle of the session
\* of the call that wrote it last (or what it held before, if none wrote);
\* and a call in which no operation of its own failed ends with its login
\* succeeded, whatever the other call does in between.
C25_OwnSessionsLastWriterWins ==
    /\ \A i, j \in RaceCalls :
          (i # j /\ raceCalls[i].session # 0 /\ raceCalls[j].session # 0)
             => (raceCalls[i].session # raceCalls[j].session
                   /\ raceCalls[i].page # raceCalls[j].page)
    /\ raceFile.writes # <<>> =>
          raceFile.bundle = raceFile.writes[Len(raceFile.writes)]
    /\ raceFile.writes = <<>> => raceFile.bundle \in {0, OldBundle}
    /\ \A i \in RaceCalls :
          /\ raceCalls[i].pc # "start" /\ raceCalls[i].fault = "none"
                => raceCalls[i].result # "err"
          /\ raceCalls[i].pc = "closed" /\ raceCalls[i].fault = "none"
                => LoginSucceeded(i)

\* Both calls loaded the same bundle, both logins succeeded by a scan, call 2
\* fetched its cookies first and call 1 wrote last: the file holds bundle 1.
C25_Witness ==
    /\ raceCalls[1].loaded = OldBundle /\ raceCalls[2].loaded = OldBundle
    /\ LoginSucceeded(1) /\ LoginSucceeded(2)
    /\ raceCalls[1].saved /\ raceCalls[2].saved
    /\ raceFile.writes = <<2, 1>> /\ raceFile.bundle = 1

\* --------------------------------------- claims on the interactive login

\* C26: the interactive login has released its browser and its page when it
\* is over, however it ended: the login-status check failed, the login wait
\* failed or ran out, saving the cookies failed, or all went well.
C26_LoginReleasesOnEveryExit ==
    (flow = "login" /\ pc = "returned") => (browser # "open" /\ page # "open")

\* -------------------------------------------- claims on the pipelines

\* The steps in the order the pipelines are stated in.
StatedOrder ==
    <<"editorReady", "tab", "setFiles", "uploadWait", "title", "body", "tags",
      "control", "click">>

IsPrefix(a, b) == Len(a) <= Len(b) /\ \A i \in 1..Len(a) : a[i] = b[i]

\* A publish call ended without success.
PublishFailed == pub.pc = "returned" /\ pub.result # "ok"

\* C27: in both publish pipelines the steps are done in the stated order, each
\* only after all earlier ones succeeded; the submit control is clicked only
\* after the editor was ready, the tab selected, the files set, the upload
\* seen complete and title and body entered; a pipeline in which a step failed
\* returns an error and has not clicked the submit control.
C27_PublishStepsInOrder ==
    /\ IsPrefix(pub.log, StatedOrder)
    /\ pub.clicks # <<>> => SubSeq(pub.log, 1, 8) = SubSeq(StatedOrder, 1, 8)
    /\ (pub.pc = "returned" /\ pub.result = "ok") => pub.log = StatedOrder
    /\ PublishFailed => pub.result = "err"
    /\ (PublishFailed /\ Len(pub.log) < 8) => pub.clicks = <<>>

\* The image-upload wait has been entered.
InUploadWait == pub.kind = "image" /\ pub.pc = "uploadWait"

\* The image-upload wait is over.
UploadWaitOver ==
    /\ pub.kind = "image"
    /\ Len(pub.log) >= 3
    /\ pub.pc # "uploadWait"

\* The polls that saw at least as many previews as files were submitted.
ReachedPolls == {i \in 1..Len(pub.polls) : pub.polls[i] >= pub.files}

C28_EachState ==
    /\ InUploadWait => (ReachedPolls = {} /\ Len(pub.polls) = pub.now)
    /\ UploadWaitOver =>
          IF Len(pub.log) >= 4
          THEN ReachedPolls = {Len(pub.polls)}
          ELSE /\ pub.result = "err"
               /\ ReachedPolls = {}
               /\ Len(pub.polls) = WaitWindowTicks

\* C28: the image-upload wait reports completion only after a poll saw a
\* preview count that reached the number of submitted files, and at the first
\* such poll; if no poll of the window sees that it returns its timeout error;
\* a failed count query is a poll like one that saw too few; and the wait,
\* once entered, always ends.
C28_UploadWaitCountsThenEnds ==
    /\ []C28_EachState
    /\ InUploadWait ~> UploadWaitOver

\* Two files: a failed query, one preview, then two previews and completion.
C28_Witness ==
    /\ pub.kind = "image" /\ pub.files = 2
    /\ pub.polls = <<-1, 1, 2>>
    /\ Len(pub.log) >= 4 /\ pub.log[4] = "uploadWait"

\* The window passed with failed queries and too few previews only.
C28_WitnessTimedOut ==
    /\ UploadWaitOver /\ pub.result = "err" /\ Len(pub.log) = 3
    /\ -1 \in {pub.polls[i] : i \in 1..Len(pub.polls)}

\* C29: a publish call, image or video, clicks the submit control at most
\* once; it returns success exactly when that click succeeded, and nothing is
\* done between the click and the return that could change the result.
C29_OneClickOptimistic ==
    /\ Len(pub.clicks) <= 1
    /\ pub.pc = "returned" =>
          (pub.result = "ok" <=> pub.clicks = <<"ok">>)
    /\ pub.clicks = <<"ok">> => pub.pc \in {"settle", "returned"}
    /\ pub.clicks = <<"err">> => (pub.pc = "returned" /\ pub.result = "err")

\* A publish call whose click went through returned success.
C29_Witness ==
    /\ pub.kind = "image" /\ pub.pc = "returned" /\ pub.result = "ok"
    /\ pub.clicks = <<"ok">>

\* A publish call whose click failed returned the error.
C29_WitnessFailed ==
    /\ pub.pc = "returned" /\ pub.result = "err" /\ pub.clicks = <<"err">>
    /\ Len(pub.log) = 8

\* --------------------------------------- claims on asynchronous handlers

\* The clicks of this call whose handler flipped the feed's real state.
FlippingClicks == {i \in OkClicks : clickLog[i].eff = "flip"}

\* The feed was un-liked when the call began: its real state now is the
\* state then, flipped once per flipping click.
StartedUnliked == realLiked = (Cardinality(FlippingClicks) % 2 = 1)

\* No update of the embedded state is pending.
Settled == embLiked = realLiked /\ embCollected = realCollected

\* C30: when every click that goes through flips the feed's real state, and
\* the embedded state may lag behind it, a like call on an un-liked feed that
\* returned leaves the feed liked once pending updates have settled: its
\* second click never undoes its first.
C30_SecondClickNeverUndoesFirst ==
    (/\ flow = "like" /\ Left /\ exitHow = "ok"
     /\ OkClicks = FlippingClicks
     /\ StartedUnliked
     /\ Settled)
    => realLiked

\* --------------------------------- claims on metadata under concurrency

\* The latest SetAccountRemark to save its remark has returned.
\* C31: once a SetAccountRemark has returned, the persisted remark is the one
\* it saved until another SetAccountRemark saves its own, whatever
\* ListAccounts and EnsureAccount calls run at the same time.
SetReturned ==
    /\ mrace.last.set
    /\ \A c \in MetaCallers :
          ~(mrace.calls[c].op = "SetAccountRemark" /\ mrace.calls[c].todo = <<>>)

C31_RemarkStaysUntilNextSet ==
    SetReturned => (mrace.file.exists /\ mrace.file.meta.remark = mrace.last.remark)

\* C36: from an empty accounts root, under every interleaving of
\* EnsureAccount, ListAccounts and SetAccountRemark calls, the persisted record
\* has a createdAt that is not zero and an updatedAt not before it.
C36_TimesWellFormed ==
    mrace.file.exists =>
        /\ mrace.file.meta.createdAt # ZeroTime
        /\ mrace.file.meta.updatedAt >= mrace.file.meta.createdAt

\* A remark was set, then a call that had read the record before wrote it
\* back: the file holds an updatedAt later than its createdAt while the other
\* caller is still at work.
C36_Witness ==
    /\ mrace.file.exists
    /\ mrace.file.meta.updatedAt > mrace.file.meta.createdAt
    /\ mrace.last.set
    /\ \E c \in MetaCallers :
          mrace.calls[c].op = "ListAccounts" /\ mrace.calls[c].local.exists

\* ------------------------------------------ claims on the handlers

\* A request was answered whose account identifier was missing, empty or
\* white space only.
BlankRequest == hcall.handler # "none" /\ TrimSpace(hcall.raw) = <<>>

\* C37: every HTTP and MCP operation that takes an account identifier refuses
\* a missing, empty or white-space-only identifier before it does anything
\* else, with the missing-account error (a JSON body without the field is
\* refused by the binding, which is counted as such a refusal here), and works
\* on no account, the default account included.
C37_BlankAccountRejected ==
    BlankRequest =>
        /\ hcall.code \in {"MISSING_ACCOUNT_ID", "INVALID_REQUEST"}
        /\ hcall.account = <<"?">>

\* ---------------------------------------------------- claims on search

\* C35: a search with filters other than the defaults that returns a feed
\* list returns the list the page loaded after the selection was applied,
\* never the list that was there before.
C35_FilteredSearchReturnsFilteredFeeds ==
    (/\ srch.pc = "returned" /\ srch.result = "ok"
     /\ FiltersApply(srch.given, srch.filters))
    => srch.returned = "post"

\* ------------------------------------------- claims on account isolation

\* Path p is directory d or lies below it.
IsUnder(p, d) == Len(p) >= Len(d) /\ SubSeq(p, 1, Len(d)) = d

\* The directory of account a, spelled out: the accounts root, then a.
OwnDir(a) == Append(accountsRootPath, a)

\* The accounts that have a directory.
IsoAccounts == {a \in {sanitizeAccountID(raw).id : raw \in IsoRawIDs} : OwnDir(a) \in iso.dirs}

\* What is there of account a: its directories and its files with their content.
Holdings(st, a) ==
    [dirs |-> {d \in st.dirs : IsUnder(d, OwnDir(a))},
     files |-> {f \in st.files : IsUnder(f.path, OwnDir(a))}]

C34_EachState ==
    /\ iso.last.ok =>
          \A q \in iso.last.touched : IsUnder(q, OwnDir(iso.last.id))
    /\ ~iso.last.ok => iso.last.touched = {}
    /\ \A d \in iso.dirs : d = accountsRootPath \/ \E a \in IsoAccounts : IsUnder(d, OwnDir(a))
    /\ \A a, b \in IsoAccounts :
          a # b => (accountDirPath(a) # accountDirPath(b)
                    /\ ~IsUnder(accountDirPath(a), accountDirPath(b)))

C34_EachStep ==
    \A a \in IsoAccounts :
        (iso' # iso /\ ~(iso'.last.ok /\ iso'.last.id = a))
            => Holdings(iso', a) = Holdings(iso, a)

\* C34: everything an operation makes or writes for an account lies under
\* that account's own directory below the accounts root, a refused identifier
\* touches nothing, accounts with different normalized identifiers have
\* different directories, none inside another, and so an operation on one
\* account leaves the directories and files of every other account as they
\* were.
C34_AccountIsolation == []C34_EachState /\ [][C34_EachStep]_vars

\* Two accounts have files; the second operation wrote the cookie bundle of
\* one and the metadata of the other still is what the first wrote.
C34_Witness ==
    /\ iso.ops = 2
    /\ iso.last.op = "saveCookies" /\ iso.last.id = <<"e">>
    /\ [path |-> metaFilePath(defaultAccountID), stamp |-> 1] \in iso.files
    /\ [path |-> cookiesFilePath(<<"e">>), stamp |-> 2] \in iso.files

\* ----------------------------------------- claims on the background wait

\* One poll of the background wait that sees the user logged in.
WaitSeesLogin == WaitForLoginPoll /\ authSeen'

\* The background goroutine takes a step.
BgStep ==
    /\ bgpc \notin {"idle", "done"}
    /\ <<bgpc, bgTime, bgDefers, saveOut, cookieFile, authSeen>>' #
           <<bgpc, bgTime, bgDefers, saveOut, cookieFile, authSeen>>

\* The calling goroutine or its context takes a step while the wait runs.
CallerStep ==
    /\ bgpc = "wait"
    /\ callNo' = callNo
    /\ <<pc, cancelled, result, exitHow>>' # <<pc, cancelled, result, exitHow>>

\* What a step of either side leaves alone: the caller's steps the position
\* and clock of the wait and what it will release, the goroutine's steps
\* everything the caller returns.
C32_Steps ==
    /\ CallerStep => UNCHANGED <<bgpc, bgTime, bgDefers, page, browser>>
    /\ (BgStep /\ callNo' = callNo) =>
          UNCHANGED <<pc, cancelled, result, exitHow, deferStack, loggedIn>>

\* C32: the background login wait runs under a context of its own that only
\* its deadline ends: while it waits before the deadline it can still see the
\* login, whether or not the caller's request was cancelled or has returned;
\* no step of the caller moves or stops it; and none of its steps changes
\* anything the caller returns: what it reports is the cookie file.
C32_WaitHasOwnToken ==
    /\ []((bgpc = "wait" /\ bgTime < LoginWaitTicks) => ENABLED WaitSeesLogin)
    /\ [][C32_Steps]_vars

\* The caller returned and its context was cancelled; the wait went on, saw
\* the login and wrote the cookie file.
C32_Witness ==
    /\ flow = "getLoginQrcode" /\ pc = "returned" /\ cancelled
    /\ bgpc = "done" /\ authSeen /\ saveOut = "ok" /\ cookieFile = callNo

\* How often a deferred call is still waiting to run, on either goroutine.
Waiting(c) ==
    Cardinality({i \in 1..Len(deferStack) : deferStack[i] = c})
      + Cardinality({i \in 1..Len(bgDefers) : bgDefers[i] = c})

\* 1 for a thing that has been closed.
Closed(thing) == IF thing = "closed" THEN 1 ELSE 0

\* GetLoginQrcode got its browser and page and is past FetchQrcodeImage.
QrFetched ==
    /\ flow = "getLoginQrcode"
    /\ page # "none"
    /\ pc \in {"unwind", "returned"}

C33_WitnessCaller ==
    /\ QrFetched /\ pc = "returned" /\ result = "err"
    /\ page = "closed" /\ browser = "closed" /\ bgpc = "idle"

\* ------------------------------------------------ claims on the controls

\* Every click of the running interact call was on its own control.
OwnControlOnly ==
    InteractCall =>
        \A i \in 1..Len(clickLog) :
            clickLog[i].sel = IF flow \in {"like", "unlike"} THEN "like" ELSE "collect"

\* A step of a like / unlike call leaves the collected state alone, a step of
\* a favorite / unfavorite call the liked state.
OtherStateKept ==
    (flow \in InteractFlows /\ callNo' = callNo) =>
        IF flow \in {"like", "unlike"}
        THEN realCollected' = realCollected
        ELSE realLiked' = realLiked

\* C38: a like or unlike call only ever clicks the like control and never
\* changes the feed's collected state; a favorite or unfavorite call only ever
\* clicks the collect control and never changes the feed's liked state.
C38_OwnControlOnly == []OwnControlOnly /\ [][OtherStateKept]_vars

\* A favorite call clicked twice, both clicks going through and flipping.
C38_Witness ==
    /\ flow = "favorite" /\ Len(clickLog) = 2
    /\ FlippingClicks = {1, 2}
    /\ clickLog[1].sel = "collect" /\ clickLog[2].sel = "collect"

\* ------------------------------------------ claims on failed state reads

\* C22: when the first getInteractState of an interact call returns an error
\* (embedded state missing or unparseable, feed id absent from the map), the
\* call does not end there: it goes on to the toggle and makes at least one
\* click attempt, and an error it returns is that of a click, never the read's.
C22_FailedFirstReadStillClicks ==
    (InteractCall /\ Len(reads) >= 1 /\ ~reads[1].ok) =>
        /\ pc \in InteractPcs \cup {"unwind", "returned"}
        /\ pc # "click1" => Len(clickLog) >= 1
        /\ (Left /\ exitHow = "err") => clickLog[Len(clickLog)].res # "ok"

\* A like whose first read failed clicked once and returned success.
C22_Witness ==
    /\ flow = "like" /\ pc = "returned" /\ result = "ok"
    /\ Len(reads) = 2 /\ ~reads[1].ok /\ reads[2].ok /\ reads[2].liked
    /\ Len(clickLog) = 1 /\ clickLog[1].res = "ok"

\* The read that follows the k-th click, which went through, did not give a
\* state: getInteractState returned an error, or its evaluation failed and no
\* result was recorded at all.
PostClickReadFailed(k) ==
    /\ k \in OkClicks
    /\ Len(reads) <= k \/ ~reads[k + 1].ok

\* C23: a state read that fails after a click (embedded state missing,
\* unparseable, feed id absent, or the evaluation itself failing) is never
\* propagated: the interact call is left with success and without a further
\* click.
C23_PostClickReadFailureIsSuccess ==
    (InteractCall /\ Left) =>
        \A k \in 1..Len(clickLog) :
            PostClickReadFailed(k) => (exitHow = "ok" /\ Len(clickLog) = k)

\* GetLoginQrcode got a QR image for an account that is not logged in.
QrIssued ==
    /\ flow = "getLoginQrcode" /\ pc \in {"unwind", "returned"}
    /\ exitHow = "ok" /\ ~loggedIn

\* C21: for an unauthenticated account getLoginQrcode hands the QR image and
\* the timeout to its caller without waiting for the background wait: once the
\* image is fetched the calling goroutine has nothing left to run but its
\* return, which it can take at every position of the background wait, and
\* what it returns is the successful response.
C21_QrReturnsWithoutWaiting ==
    QrIssued =>
        /\ deferStack = <<>>
        /\ pc = "unwind" => ENABLED Return
        /\ pc = "returned" => result = "ok"

\* The call has returned and the background wait, one poll in, still polls.
C21_Witness ==
    /\ QrIssued
    /\ pc = "returned" /\ result = "ok"
    /\ bgpc = "wait" /\ bgTime = 1 /\ bgTime < LoginWaitTicks
    /\ page = "open" /\ browser = "open"

\* ------------------------------------------------- claims on the filters

\* The enumeration and the documented default of each field.
FilterFields == {"sort", "note_type", "publish_time", "search_scope", "distance"}

Enumeration(f) ==
    CASE f = "sort" ->
            {"comprehensive", "latest", "most_likes", "most_comments", "most_favorites"}
      [] f = "note_type" -> {"all", "video", "image"}
      [] f = "publish_time" -> {"all", "day", "week", "half_year"}
      [] f = "search_scope" -> {"all", "seen", "unseen", "followed"}
      [] f = "distance" -> {"all", "same_city", "nearby"}

DocumentedDefault(f) == IF f = "sort" THEN "comprehensive" ELSE "all"

Field(r, f) ==
    CASE f = "sort" -> r.sort
      [] f = "note_type" -> r.noteType
      [] f = "publish_time" -> r.publishTime
      [] f = "search_scope" -> r.searchScope
      [] f = "distance" -> r.distance

\* The fields supplied with a value outside their enumeration.
BadFields == {f \in FilterFields :
                Field(sfArgs, f) # "" /\ Field(sfArgs, f) \notin Enumeration(f)}

\* C19: SearchFilters construction resolves each omitted field to its default
\* and keeps each supplied one; it fails, naming a field whose value is outside
\* its enumeration, exactly when there is such a field; every constructed
\* SearchFilters has its five fields inside their enumerations.
C19_FiltersDefaultsAndValidation ==
    sfOut # NoFilters =>
        /\ sfOut.ok <=> BadFields = {}
        /\ ~sfOut.ok => sfOut.err \in BadFields
        /\ sfOut.ok =>
              \A f \in FilterFields :
                 /\ Field(sfOut.filters, f) \in Enumeration(f)
                 /\ Field(sfOut.filters, f) =
                       IF Field(sfArgs, f) = "" THEN DocumentedDefault(f)
                       ELSE Field(sfArgs, f)

\* Filters were constructed from some omitted and some supplied fields.
C19_Witness ==
    /\ sfOut.ok
    /\ sfArgs.sort = "" /\ sfOut.filters.sort = "comprehensive"
    /\ sfArgs.noteType = "" /\ sfOut.filters.noteType = "all"
    /\ sfArgs.distance = "nearby" /\ sfOut.filters.distance = "nearby"

\* Construction failed on the one field that was out of its enumeration.
C19_WitnessRefused ==
    /\ sfOut # NoFilters
    /\ BadFields = {"publish_time"}
    /\ sfOut.err = "publish_time"

====
